---- MODULE Spec2Model ----
(***************************************************************************)
(* Smart Study Space.                                                      *)
(*                                                                         *)
(* Two programs are modelled:                                              *)
(*   - the flow-state prediction module (src/unnamed/part_000, JavaScript):*)
(*     runPredictionAnalysis and the pure functions it calls;              *)
(*   - the sensing node firmware (src/Smart_Study_Space.ino): the heart    *)
(*     sensor acquisition tick, the adaptive beat detector and the HRV     *)
(*     calculation.                                                        *)
(*                                                                         *)
(* Numbers.  The JavaScript code computes in doubles; the model computes   *)
(* the same quantities exactly: a probability flowStateCount/totalCount is *)
(* the pair of its counters, a comparison with 0.3 is a cross              *)
(* multiplication, and Math.round(x) is the greatest k with k <= x + 1/2.  *)
(* Noise levels and R-R intervals are carried in tenths (55.0 dB = 550).   *)
(***************************************************************************)
EXTENDS Integers, Sequences, FiniteSets, TLC

VARIABLES
    \* ---- prediction module (src/unnamed/part_000) ----
    predictionData,   \* the global predictionData object
    pdWriter,         \* per field of predictionData: the run whose assignment it holds (0: initial value)
    initialized,      \* initializePredictionModule has run
    clock,            \* the wall clock of the browser, in whole hours
    nextRun,          \* number of the next call of runPredictionAnalysis
    timerDue,         \* UPDATE_INTERVAL has elapsed since the interval timer last fired
    runs,             \* per call: where it is, and what its promise resolved to
    completionOrder,  \* the calls whose continuation has run, in that order
    ui,               \* what the two DOM elements show
    aggregations,     \* the calls of analyzeTemporalPatterns on drawn data: input and returned object
    \* ---- state classifier, applied to drawn arguments ----
    clsArgs,          \* the arguments of a call of classifyStateForPrediction
    clsResult,        \* what it returned ("none" before the call)
    \* ---- calculatePredictionConfidence, applied to a drawn pattern ----
    confArgs,         \* the pattern of a call of calculatePredictionConfidence
    confResult,       \* <<what it returned>> (<<>> before the call)
    \* ---- sensing node (src/Smart_Study_Space.ino) ----
    node,             \* the globals of the heart-rate path and the statics of detectHeartBeat_Adaptive
    millis,           \* millis() at the latest acquisition tick of loop()
    ticks,            \* acquisition ticks so far
    noFingerTicks,    \* acquisition ticks so far without a finger on the sensor
    fingerRun,        \* the latest acquisition ticks in a row with the sample above IR_THRESHOLD, up to IR_WINDOW_SIZE
    lossTime,         \* millis() at the latest read of a sample not above IR_THRESHOLD (0 before the first)
    admittedRates,    \* the latest instantaneous BPMs admitted, up to RATE_SIZE of them, oldest first
    signal,           \* the pulse waveform under the sensor, and where in its cycle it is
    hrvCall,          \* a call of calculateHRV on a drawn interval buffer: "idle", "entry", "returned"
    lastUploadTime,   \* the global lastUploadTime
    uploadLog         \* the upload ticks so far: when, and the request sent, if one was

forecastVars == <<predictionData, pdWriter, initialized, clock, nextRun, timerDue, runs,
                  completionOrder, ui, aggregations>>
classifyVars == <<clsArgs, clsResult, confArgs, confResult>>
beatVars == <<node, millis, ticks, noFingerTicks, fingerRun, lossTime, admittedRates, signal, hrvCall, lastUploadTime,
              uploadLog>>
vars == <<forecastVars, classifyVars, beatVars>>

(***************************************************************************)
(* Bounds of the model                                                     *)
(***************************************************************************)
MaxClock == 2    \* hours the clock of the prediction module may advance
MaxTicks == 112  \* acquisition ticks of the sensing node in one behaviour
MaxNoFingerTicks == 1   \* of which without a finger on the sensor
MaxAggregations == 3    \* calls of analyzeTemporalPatterns on drawn data
MaxUploadTicks == 230   \* acquisition ticks of a behaviour of UploadSpec
MaxWindowTicks == 3     \* acquisition ticks of ThresholdSpec once the window is about to fill

(***************************************************************************)
(* PREDICTION_CONFIG and STATE_THRESHOLDS                                  *)
(***************************************************************************)
PREDICTION_WINDOW == 24
MIN_DATA_POINTS == 100
FLOW_STATE_THRESHOLD_PCT == 30     \* 0.3, in percent
TOP_PREDICTIONS == 5
NOISE_THRESHOLD_X10 == 550         \* 55.0 dB, in tenths
BPM_LOW == 60
BPM_HIGH == 80
HRV_THRESHOLD_X10 == 7000          \* 700 ms, in tenths
BPM_MIN_VALID == 40
BPM_MAX_VALID == 200
MIN_SAMPLES_FOR_CONFIDENCE == 10
IDEAL_SAMPLES == 50
IDEAL_DATA_POINTS == 500

Min(a, b) == IF a <= b THEN a ELSE b

(***************************************************************************)
(* Integer square root (floor), by bisection.                              *)
(***************************************************************************)
RECURSIVE BSqrt(_, _, _)
BSqrt(m, lo, hi) ==
    IF lo >= hi THEN lo
    ELSE LET mid == (lo + hi + 1) \div 2
         IN  IF mid * mid <= m THEN BSqrt(m, mid, hi) ELSE BSqrt(m, lo, mid - 1)

ISqrt(m) == BSqrt(m, 0, 46340)

\* 300 * sqrt(m) <= R, exactly, for 0 <= m and any integer R.
SqrtX300Leq(m, R) ==
    IF R < 0 THEN FALSE
    ELSE LET a == R \div 300
             b == R % 300
             s == ISqrt(m)
         IN  IF s < a THEN TRUE
             ELSE IF s > a THEN FALSE
             ELSE 90000 * (m - a * a) <= 600 * a * b + b * b

(***************************************************************************)
(* classifyStateForPrediction(noise, bpm, rrInterval)                      *)
(***************************************************************************)
\* The classifier with a validity test that no heart rate fails.
classifyWithoutRangeCheck(noise, bpm, rrInterval) ==
    IF bpm < BPM_MIN_VALID /\ bpm > BPM_MAX_VALID THEN "Standby"
    ELSE LET isQuiet == noise < NOISE_THRESHOLD_X10
             isGoodPhysio == rrInterval > HRV_THRESHOLD_X10
                             \/ (bpm >= BPM_LOW /\ bpm <= BPM_HIGH)
         IN  IF isQuiet /\ isGoodPhysio THEN "Flow State"
             ELSE IF ~isQuiet /\ isGoodPhysio THEN "Normal Learning"
             ELSE IF isQuiet /\ ~isGoodPhysio THEN "Standby"
             ELSE "Distracted"

\* The classifier with the noise threshold itself counted as quiet.
classifyQuietInclusive(noise, bpm, rrInterval) ==
    IF bpm < BPM_MIN_VALID \/ bpm > BPM_MAX_VALID THEN "Standby"
    ELSE LET isQuiet == noise <= NOISE_THRESHOLD_X10
             isGoodPhysio == rrInterval > HRV_THRESHOLD_X10
                             \/ (bpm >= BPM_LOW /\ bpm <= BPM_HIGH)
         IN  IF isQuiet /\ isGoodPhysio THEN "Flow State"
             ELSE IF ~isQuiet /\ isGoodPhysio THEN "Normal Learning"
             ELSE IF isQuiet /\ ~isGoodPhysio THEN "Standby"
             ELSE "Distracted"

classifyStateForPrediction(noise, bpm, rrInterval) ==
    IF bpm < BPM_MIN_VALID \/ bpm > BPM_MAX_VALID THEN "Standby"
    ELSE LET isQuiet == noise < NOISE_THRESHOLD_X10
             hasGoodHRV == rrInterval > HRV_THRESHOLD_X10
             hasOptimalBPM == bpm >= BPM_LOW /\ bpm <= BPM_HIGH
             isGoodPhysio == hasGoodHRV \/ hasOptimalBPM
         IN  IF isQuiet /\ isGoodPhysio THEN "Flow State"
             ELSE IF ~isQuiet /\ isGoodPhysio THEN "Normal Learning"
             ELSE IF isQuiet /\ ~isGoodPhysio THEN "Standby"
             ELSE "Distracted"

(***************************************************************************)
(* Exact numbers.  A ratio is [num, den] with den > 0.  A consistency is   *)
(* the number 1 - sqrt(rad)/den, kept as [rad, den]: for a cell with f     *)
(* flow samples out of n the variance of the indicator is f(n-f)/n^2, so   *)
(* its consistency is 1 - sqrt(f(n-f))/n.                                  *)
(***************************************************************************)
Ratio(n, d) == [num |-> n, den |-> d]
Zero == Ratio(0, 1)
RatGeq(a, b) == a.num * b.den >= b.num * a.den
OneMinusSqrt(rad, den) == [rad |-> rad, den |-> den]
ZeroConsistency == OneMinusSqrt(1, 1)

RECURSIVE GCD(_, _)
GCD(a, b) == IF b = 0 THEN a ELSE GCD(b, a % b)

(***************************************************************************)
(* Historical data.  A feed group stands for n identical rows of the       *)
(* ThingSpeak answer: created_at (as day of week and hour), field2, field3,*)
(* field5 and field6 after parseFloat/parseInt.                            *)
(***************************************************************************)
Feed(day, hour, noise, rr, bpmAvg, bpmRealtime, n) ==
    [dayOfWeek |-> day, hour |-> hour, noise |-> noise, rrInterval |-> rr,
     bpmAvg |-> bpmAvg, bpmRealtime |-> bpmRealtime, n |-> n]

\* A callback that takes the instantaneous BPM whenever there is one.
CleanRecordPreferringRealtime(feed) ==
    LET bpm == IF feed.bpmRealtime > 0 THEN feed.bpmRealtime ELSE feed.bpmAvg
        state == classifyStateForPrediction(feed.noise, bpm, feed.rrInterval)
    IN  [dayOfWeek |-> feed.dayOfWeek, hour |-> feed.hour, noise |-> feed.noise,
         bpm |-> bpm, rrInterval |-> feed.rrInterval, state |-> state,
         isFlowState |-> (state = "Flow State"), n |-> feed.n]

\* The callback of data.feeds.map: one clean record per row.
CleanRecord(feed) ==
    LET bpm == IF feed.bpmAvg > 0 THEN feed.bpmAvg ELSE feed.bpmRealtime
        state == classifyStateForPrediction(feed.noise, bpm, feed.rrInterval)
    IN  [dayOfWeek |-> feed.dayOfWeek, hour |-> feed.hour, noise |-> feed.noise,
         bpm |-> bpm, rrInterval |-> feed.rrInterval, state |-> state,
         isFlowState |-> (state = "Flow State"), n |-> feed.n]

\* The predicate of .filter.
ValidBpm(d) == d.bpm >= BPM_MIN_VALID /\ d.bpm <= BPM_MAX_VALID

RECURSIVE MapClean(_)
MapClean(feeds) ==
    IF feeds = <<>> THEN <<>>
    ELSE <<CleanRecord(Head(feeds))>> \o MapClean(Tail(feeds))

\* cleanData of fetchPredictionHistoricalData, for a non-empty answer.
CleanData(feeds) == SelectSeq(MapClean(feeds), ValidBpm)

RECURSIVE SumSeq(_)
SumSeq(s) == IF s = <<>> THEN 0 ELSE Head(s) + SumSeq(Tail(s))

\* historicalData.length
DataLength(data) == SumSeq([i \in 1..Len(data) |-> data[i].n])

(***************************************************************************)
(* analyzeTemporalPatterns(data)                                           *)
(***************************************************************************)
\* The cells of a store that leaves out the last hour of every day.
CellsWithoutLastHour == (0..6) \X (0..22)

\* The keys `${day}-${hour}` of the two nested loops.
Cells == (0..6) \X (0..23)

\* entry falls into the cell of key `${day}-${hour}`
InCell(entry, day, hour) == entry.dayOfWeek = day /\ entry.hour = hour

\* Accumulators keyed by the day alone: a record counts in every hour of
\* its day.
AccumulateWholeDay(data, day, hour) ==
    LET Rows(i) == IF data[i].dayOfWeek = day THEN data[i].n ELSE 0
        FlowRowsAt(i) == IF data[i].isFlowState THEN Rows(i) ELSE 0
    IN  [day |-> day, hour |-> hour,
         flowStateCount |-> SumSeq([i \in 1..Len(data) |-> FlowRowsAt(i)]),
         totalCount |-> SumSeq([i \in 1..Len(data) |-> Rows(i)]),
         noiseSum |-> SumSeq([i \in 1..Len(data) |-> Rows(i) * data[i].noise]),
         bpmSum |-> SumSeq([i \in 1..Len(data) |-> Rows(i) * data[i].bpm]),
         rrIntervalSum |-> SumSeq([i \in 1..Len(data) |-> Rows(i) * data[i].rrInterval])]

\* The accumulators of one cell after data.forEach.
Accumulate(data, day, hour) ==
    LET Rows(i) == IF InCell(data[i], day, hour) THEN data[i].n ELSE 0
        FlowRowsAt(i) == IF data[i].isFlowState THEN Rows(i) ELSE 0
    IN  [day |-> day, hour |-> hour,
         flowStateCount |-> SumSeq([i \in 1..Len(data) |-> FlowRowsAt(i)]),
         totalCount |-> SumSeq([i \in 1..Len(data) |-> Rows(i)]),
         noiseSum |-> SumSeq([i \in 1..Len(data) |-> Rows(i) * data[i].noise]),
         bpmSum |-> SumSeq([i \in 1..Len(data) |-> Rows(i) * data[i].bpm]),
         rrIntervalSum |-> SumSeq([i \in 1..Len(data) |-> Rows(i) * data[i].rrInterval])]

\* Statistics whose variance is taken around one half instead of the cell's
\* probability.
StatisticsAroundOneHalf(acc) ==
    IF acc.totalCount > 0
    THEN [avgNoise |-> Ratio(acc.noiseSum, acc.totalCount),
          avgBPM |-> Ratio(acc.bpmSum, acc.totalCount),
          avgRRInterval |-> Ratio(acc.rrIntervalSum, acc.totalCount),
          probability |-> Ratio(acc.flowStateCount, acc.totalCount),
          consistency |-> OneMinusSqrt(1, 2)]
    ELSE [avgNoise |-> Zero, avgBPM |-> Zero, avgRRInterval |-> Zero,
          probability |-> Zero, consistency |-> ZeroConsistency]

\* The statistics of one cell (the Object.keys(...).forEach pass).
Statistics(acc) ==
    IF acc.totalCount > 0
    THEN [avgNoise |-> Ratio(acc.noiseSum, acc.totalCount),
          avgBPM |-> Ratio(acc.bpmSum, acc.totalCount),
          avgRRInterval |-> Ratio(acc.rrIntervalSum, acc.totalCount),
          probability |-> Ratio(acc.flowStateCount, acc.totalCount),
          consistency |-> OneMinusSqrt(acc.flowStateCount * (acc.totalCount - acc.flowStateCount),
                                       acc.totalCount)]
    ELSE [avgNoise |-> Zero, avgBPM |-> Zero, avgRRInterval |-> Zero,
          probability |-> Zero, consistency |-> ZeroConsistency]

analyzeTemporalPatterns(data) ==
    [key \in Cells |->
        LET acc == Accumulate(data, key[1], key[2])
            st == Statistics(acc)
        IN  [day |-> acc.day, hour |-> acc.hour,
             flowStateCount |-> acc.flowStateCount, totalCount |-> acc.totalCount,
             noiseSum |-> acc.noiseSum, bpmSum |-> acc.bpmSum,
             rrIntervalSum |-> acc.rrIntervalSum,
             avgNoise |-> st.avgNoise, avgBPM |-> st.avgBPM,
             avgRRInterval |-> st.avgRRInterval,
             probability |-> st.probability, consistency |-> st.consistency]]

(***************************************************************************)
(* calculatePredictionConfidence(pattern)                                  *)
(*                                                                         *)
(* confidence = round(100 * (0.4 min(n/50, 1) + 0.3 c + 0.3 p)) with       *)
(* c = 1 - sqrt(rad)/cd and p = pn/pd.  k <= confidence + 1/2 is, times    *)
(* 10 pd:  300 pd sqrt(rad)/cd <= pd (8 min(n,50) + 305 - 10 k) + 300 pn.  *)
(***************************************************************************)
ConfidenceAtLeast(pattern, k) ==
    LET n == pattern.totalCount
        pn == pattern.probability.num
        pd == pattern.probability.den
        rad == pattern.consistency.rad
        cd == pattern.consistency.den
        g == GCD(pd, cd)
        R == pd * ((400 * Min(n, IDEAL_SAMPLES)) \div IDEAL_SAMPLES + 305 - 10 * k) + 300 * pn
    IN  SqrtX300Leq(rad * (pd \div g) * (pd \div g), R * (cd \div g))

\* A confidence that is also 0 at exactly the minimum number of samples.
calculatePredictionConfidenceAboveMinimum(pattern) ==
    IF pattern.totalCount <= MIN_SAMPLES_FOR_CONFIDENCE THEN 0
    ELSE CHOOSE k \in 0..101 :
            /\ ConfidenceAtLeast(pattern, k)
            /\ ~ConfidenceAtLeast(pattern, k + 1)

calculatePredictionConfidence(pattern) ==
    IF pattern.totalCount < MIN_SAMPLES_FOR_CONFIDENCE THEN 0
    ELSE CHOOSE k \in 0..101 :
            /\ ConfidenceAtLeast(pattern, k)
            /\ ~ConfidenceAtLeast(pattern, k + 1)

(***************************************************************************)
(* generateFlowStatePredictions(patterns), with now the hour new Date()    *)
(* falls in.  Hour 0 of the clock is hour 0 of day 0.                      *)
(***************************************************************************)
DayOf(time) == (time \div 24) % 7
HourOf(time) == time % 24

\* pattern.probability >= PREDICTION_CONFIG.FLOW_STATE_THRESHOLD
AboveThreshold(pattern) ==
    pattern.probability.num * 100 >= FLOW_STATE_THRESHOLD_PCT * pattern.probability.den

\* The object pushed for hour i of the loop.
PredictionFor(pattern, now, i) ==
    [time |-> now + i, hour |-> HourOf(now + i), dayOfWeek |-> DayOf(now + i),
     probability |-> pattern.probability,
     confidence |-> calculatePredictionConfidence(pattern),
     expectedNoise |-> pattern.avgNoise, expectedBPM |-> pattern.avgBPM,
     expectedRRInterval |-> pattern.avgRRInterval,
     sampleSize |-> pattern.totalCount, consistency |-> pattern.consistency,
     hoursFromNow |-> i]

\* predictions after the for loop has run for hours i..PREDICTION_WINDOW.
RECURSIVE CandidatesFrom(_, _, _)
CandidatesFrom(patterns, now, i) ==
    IF i > PREDICTION_WINDOW THEN <<>>
    ELSE LET pattern == patterns[<<DayOf(now + i), HourOf(now + i)>>]
         IN  (IF AboveThreshold(pattern) THEN <<PredictionFor(pattern, now, i)>> ELSE <<>>)
             \o CandidatesFrom(patterns, now, i + 1)

Candidates(patterns, now) == CandidatesFrom(patterns, now, 1)

\* scoreB - scoreA > 0 for score = probability * (confidence / 100)
ScoreLess(a, b) ==
    a.probability.num * a.confidence * b.probability.den
        < b.probability.num * b.confidence * a.probability.den

\* predictions.sort((a, b) => scoreB - scoreA): a stable sort, so an element
\* goes behind every earlier element whose score is not smaller.
\* An insertion that puts an element in front of the earlier elements of
\* equal score.
RECURSIVE InsertByScoreBeforeEqual(_, _)
InsertByScoreBeforeEqual(sorted, x) ==
    IF sorted = <<>> THEN <<x>>
    ELSE IF ~ScoreLess(x, Head(sorted)) THEN <<x>> \o sorted
    ELSE <<Head(sorted)>> \o InsertByScoreBeforeEqual(Tail(sorted), x)

RECURSIVE InsertByScore(_, _)
InsertByScore(sorted, x) ==
    IF sorted = <<>> THEN <<x>>
    ELSE IF ScoreLess(Head(sorted), x) THEN <<x>> \o sorted
    ELSE <<Head(sorted)>> \o InsertByScore(Tail(sorted), x)

RECURSIVE SortByScore(_)
SortByScore(s) ==
    IF s = <<>> THEN <<>>
    ELSE InsertByScore(SortByScore(SubSeq(s, 1, Len(s) - 1)), s[Len(s)])

\* A slice that keeps one entry too many.
TopPredictionsOffByOne(sorted) == SubSeq(sorted, 1, Min(Len(sorted), TOP_PREDICTIONS + 1))

\* predictions.slice(0, PREDICTION_CONFIG.TOP_PREDICTIONS)
TopPredictions(sorted) == SubSeq(sorted, 1, Min(Len(sorted), TOP_PREDICTIONS))

generateFlowStatePredictions(patterns, now) ==
    TopPredictions(SortByScore(Candidates(patterns, now)))

(***************************************************************************)
(* calculateOverallConfidence(predictions, dataPoints):                    *)
(* round(avg * 0.7 + min(dataPoints/500, 1) * 30), avg = S/L; plus 1/2 it  *)
(* is (35 S + 3 L min(dataPoints, 500) + 25 L) / (50 L).                   *)
(***************************************************************************)
\* An overall confidence whose data factor is not capped at 1.
calculateOverallConfidenceUncapped(predictions, dataPoints) ==
    IF Len(predictions) = 0 THEN 0
    ELSE LET L == Len(predictions)
             S == SumSeq([i \in 1..L |-> predictions[i].confidence])
         IN  (35 * S + (30 * dataPoints * L * 50) \div IDEAL_DATA_POINTS + 25 * L) \div (50 * L)

calculateOverallConfidence(predictions, dataPoints) ==
    IF Len(predictions) = 0 THEN 0
    ELSE LET L == Len(predictions)
             S == SumSeq([i \in 1..L |-> predictions[i].confidence])
             m == Min(dataPoints, IDEAL_DATA_POINTS)
         IN  (35 * S + (30 * m * L * 50) \div IDEAL_DATA_POINTS + 25 * L) \div (50 * L)

(***************************************************************************)
(* assessDataQuality(dataPoints)                                           *)
(***************************************************************************)
QUALITY_INSUFFICIENT_BELOW == 100
QUALITY_LOW_BELOW == 300
QUALITY_MODERATE_BELOW == 800
QUALITY_GOOD_BELOW == 1500

assessDataQuality(dataPoints) ==
    IF dataPoints < QUALITY_INSUFFICIENT_BELOW THEN "insufficient"
    ELSE IF dataPoints < QUALITY_LOW_BELOW THEN "low"
    ELSE IF dataPoints < QUALITY_MODERATE_BELOW THEN "moderate"
    ELSE IF dataPoints < QUALITY_GOOD_BELOW THEN "good"
    ELSE "excellent"

(***************************************************************************)
(* The historical data a fetch may answer with; an answer is named by its  *)
(* place in this list.                                                     *)
(***************************************************************************)
\* quiet, optimal heart rate: Flow State
FlowRows(day, hour, n) == Feed(day, hour, 400, 8000, 70, 72, n)
\* quiet, averaged BPM missing, instantaneous BPM optimal: Flow State
RealtimeRows(day, hour, n) == Feed(day, hour, 420, 0, 0, 65, n)
\* loud, fast heart, short R-R interval: Distracted
OtherRows(day, hour, n) == Feed(day, hour, 620, 6000, 95, 96, n)
\* no finger on the sensor: both BPM fields 0, dropped by the filter
InvalidRows(day, hour, n) == Feed(day, hour, 450, 0, 0, 0, n)
\* averaged BPM below 40 beside an instantaneous BPM of 70: dropped
LowAverageRows(day, hour, n) == Feed(day, hour, 400, 8000, 30, 70, n)
\* averaged BPM above 200 beside an instantaneous BPM of 95: dropped
HighAverageRows(day, hour, n) == Feed(day, hour, 620, 6000, 210, 95, n)

Datasets ==
    << \* 50 valid rows
      <<FlowRows(0, 5, 30), OtherRows(0, 5, 20)>>,
      \* 120 rows of which 40 are valid
      <<FlowRows(0, 5, 40), InvalidRows(0, 6, 80)>>,
      \* 103 valid rows; a cell of the next hours holds 3 samples, all flow
      <<OtherRows(3, 12, 100), FlowRows(0, 5, 3)>>,
      \* 140 valid rows; seven cells of the next hours are at or above 0.3
      <<FlowRows(0, 3, 6), OtherRows(0, 3, 14), FlowRows(0, 4, 8), OtherRows(0, 4, 12),
        FlowRows(0, 5, 10), OtherRows(0, 5, 10), FlowRows(0, 6, 12), OtherRows(0, 6, 8),
        FlowRows(0, 7, 14), OtherRows(0, 7, 6), FlowRows(0, 8, 16), OtherRows(0, 8, 4),
        FlowRows(0, 9, 20)>>,
      \* 140 valid rows; one cell at 0.25, one at exactly 0.3
      <<OtherRows(3, 12, 100), FlowRows(0, 4, 5), OtherRows(0, 4, 15),
        RealtimeRows(0, 6, 6), OtherRows(0, 6, 14)>>,
      \* 120 rows of which 100 are valid, none of those flow
      <<LowAverageRows(0, 5, 12), OtherRows(0, 5, 100), HighAverageRows(0, 5, 8)>>,
      \* 320 valid rows; equal scores in two cells, a higher one in the next
      <<OtherRows(3, 12, 140), FlowRows(0, 10, 30), OtherRows(0, 10, 30),
        FlowRows(0, 11, 30), OtherRows(0, 11, 30),
        FlowRows(0, 12, 45), OtherRows(0, 12, 15)>>,
      \* 1500 valid rows
      <<OtherRows(3, 12, 1400), FlowRows(1, 1, 60), OtherRows(1, 1, 40)>> >>

DatasetIds == 1..Len(Datasets)

(***************************************************************************)
(* runPredictionAnalysis.  The call runs to its await; its continuation    *)
(* runs when the fetch has settled, as one step of the event loop (nothing *)
(* after line 48 awaits).                                                  *)
(***************************************************************************)
RunIds == 1..(MaxClock + 1)

NoAnswer == 0

NotStarted == [pc |-> "idle", result |-> "none", feeds |-> NoAnswer, aggregated |-> <<>>,
               candidates |-> <<>>, admitted |-> <<>>, predictions |-> <<>>,
               dataPoints |-> 0, overallConfidence |-> 0]

InitialPredictionData ==
    [predictions |-> <<>>, lastUpdate |-> -1, confidence |-> 0, dataQuality |-> "insufficient"]

InitialMetadata == [status |-> "initial", lastUpdate |-> -1, confidence |-> 0, dataQuality |-> ""]

\* Step 5 with the dataQuality assignment left out.
StoreResultsWithoutQuality(old, r, predictions, now, overallConfidence, quality) ==
    [data |-> [predictions |-> predictions, lastUpdate |-> now,
               confidence |-> overallConfidence, dataQuality |-> old.data.dataQuality],
     writer |-> [predictions |-> r, lastUpdate |-> r, confidence |-> r,
                 dataQuality |-> old.writer.dataQuality]]

\* Step 5 made only by a run that started after the one whose result is stored.
StoreResultsOfNewerStart(old, r, predictions, now, overallConfidence, quality) ==
    IF r < old.writer.predictions THEN old
    ELSE [data |-> [predictions |-> predictions, lastUpdate |-> now,
                    confidence |-> overallConfidence, dataQuality |-> quality],
          writer |-> [predictions |-> r, lastUpdate |-> r, confidence |-> r, dataQuality |-> r]]

\* Step 5: the four assignments to predictionData, made by run r.
StoreResults(old, r, predictions, now, overallConfidence, quality) ==
    [data |-> [predictions |-> predictions, lastUpdate |-> now,
               confidence |-> overallConfidence, dataQuality |-> quality],
     writer |-> [predictions |-> r, lastUpdate |-> r, confidence |-> r, dataQuality |-> r]]

\* updatePredictionUI(predictions, overallConfidence), reading the stored predictionData
updatePredictionUI(oldUi, predictions, overallConfidence, stored) ==
    IF Len(predictions) = 0
    THEN [container |-> "no_flow_states", metadata |-> oldUi.metadata]
    ELSE [container |-> "cards",
          metadata |-> [status |-> "updated", lastUpdate |-> stored.lastUpdate,
                        confidence |-> overallConfidence, dataQuality |-> stored.dataQuality]]

\* updatePredictionUINoData(currentDataPoints)
updatePredictionUINoData ==
    [container |-> "collecting",
     metadata |-> [status |-> "awaiting", lastUpdate |-> -1, confidence |-> 0, dataQuality |-> ""]]

\* The call up to its await: the fetch is in flight.
StartRun ==
    /\ runs' = [runs EXCEPT ![nextRun].pc = "fetching"]
    /\ nextRun' = nextRun + 1

InitForecast ==
    /\ predictionData = InitialPredictionData
    /\ pdWriter = [predictions |-> 0, lastUpdate |-> 0, confidence |-> 0, dataQuality |-> 0]
    /\ initialized = FALSE
    /\ clock = 0
    /\ nextRun = 1
    /\ timerDue = FALSE
    /\ runs = [r \in RunIds |-> NotStarted]
    /\ completionOrder = <<>>
    /\ ui = [container |-> "initial", metadata |-> InitialMetadata]
    /\ aggregations = <<>>

initializePredictionModule ==
    /\ ~initialized
    /\ initialized' = TRUE
    /\ StartRun
    /\ UNCHANGED <<predictionData, pdWriter, clock, timerDue, completionOrder, ui, aggregations,
                   classifyVars, beatVars>>

\* An hour of wall-clock time passes: UPDATE_INTERVAL is one hour.
HourPasses ==
    /\ initialized
    /\ ~timerDue
    /\ clock < MaxClock
    /\ clock' = clock + 1
    /\ timerDue' = TRUE
    /\ UNCHANGED <<predictionData, pdWriter, initialized, nextRun, runs, completionOrder,
                   ui, aggregations, classifyVars, beatVars>>

\* A timer that skips its call while an earlier call awaits its fetch.
TimerGuardWhenIdle == timerDue /\ \A r \in RunIds : runs[r].pc # "fetching"

\* setInterval calls runPredictionAnalysis, whatever the earlier calls are doing.
TimerGuard == timerDue
TimerFires ==
    /\ TimerGuard
    /\ timerDue' = FALSE
    /\ StartRun
    /\ UNCHANGED <<predictionData, pdWriter, initialized, clock, completionOrder, ui,
                   aggregations, classifyVars, beatVars>>

\* A continuation that puts predictionData back to its initial value when
\* there is too little data.
InsufficientDataClearingSnapshot(r, feeds, dataPoints) ==
    /\ runs' = [runs EXCEPT ![r] = [pc |-> "done", result |-> "null",
                                    feeds |-> feeds, aggregated |-> <<>>,
                                    candidates |-> <<>>, admitted |-> <<>>,
                                    predictions |-> <<>>,
                                    dataPoints |-> dataPoints, overallConfidence |-> 0]]
    /\ ui' = updatePredictionUINoData
    /\ completionOrder' = Append(completionOrder, r)
    /\ predictionData' = InitialPredictionData
    /\ pdWriter' = [predictions |-> 0, lastUpdate |-> 0, confidence |-> 0, dataQuality |-> 0]

\* The continuation with historicalData null or shorter than MIN_DATA_POINTS.
InsufficientData(r, feeds, dataPoints) ==
    /\ runs' = [runs EXCEPT ![r] = [pc |-> "done", result |-> "null",
                                    feeds |-> feeds, aggregated |-> <<>>,
                                    candidates |-> <<>>, admitted |-> <<>>,
                                    predictions |-> <<>>,
                                    dataPoints |-> dataPoints, overallConfidence |-> 0]]
    /\ ui' = updatePredictionUINoData
    /\ completionOrder' = Append(completionOrder, r)
    /\ UNCHANGED <<predictionData, pdWriter>>

\* Steps 1 to 4 for every answer and every hour of the clock: what the pure
\* functions compute, tabulated once.
AnalysisOf ==
    [feeds \in DatasetIds |->
        LET historicalData == CleanData(Datasets[feeds])
            dataPoints == DataLength(historicalData)
            patterns == analyzeTemporalPatterns(historicalData)
        IN  [historicalData |-> historicalData,
             dataPoints |-> dataPoints,
             \* the confidences in the array of generateFlowStatePredictions
             \* when its loop ends, before it is sorted and sliced
             candidatesByHour |-> [now \in 0..MaxClock |->
                 IF dataPoints < MIN_DATA_POINTS THEN <<>>
                 ELSE LET c == Candidates(patterns, now)
                      IN  [i \in 1..Len(c) |-> c[i].confidence]],
             \* the same array: what the comparison of the sort reads, and
             \* the hour of the loop that pushed the element
             admittedByHour |-> [now \in 0..MaxClock |->
                 IF dataPoints < MIN_DATA_POINTS THEN <<>>
                 ELSE LET c == Candidates(patterns, now)
                      IN  [i \in 1..Len(c) |->
                              [probability |-> c[i].probability,
                               confidence |-> c[i].confidence,
                               hoursFromNow |-> c[i].hoursFromNow]]],
             byHour |-> [now \in 0..MaxClock |->
                 IF dataPoints < MIN_DATA_POINTS THEN <<>>
                 ELSE generateFlowStatePredictions(patterns, now)]]]

\* The continuation with enough data: steps 2 to 6.
Analysis(r, feeds) ==
    LET predictions == AnalysisOf[feeds].byHour[clock]
        dataPoints == AnalysisOf[feeds].dataPoints
        overallConfidence == calculateOverallConfidence(predictions, dataPoints)
        stored == StoreResults([data |-> predictionData, writer |-> pdWriter], r, predictions,
                               clock, overallConfidence, assessDataQuality(dataPoints))
    IN  /\ predictionData' = stored.data
        /\ pdWriter' = stored.writer
        /\ ui' = updatePredictionUI(ui, predictions, overallConfidence, stored.data)
        /\ runs' = [runs EXCEPT ![r] = [pc |-> "done", result |-> "predictions",
                                        feeds |-> feeds,
                                        aggregated |-> AnalysisOf[feeds].historicalData,
                                        candidates |-> AnalysisOf[feeds].candidatesByHour[clock],
                                        admitted |-> AnalysisOf[feeds].admittedByHour[clock],
                                        predictions |-> predictions,
                                        dataPoints |-> dataPoints,
                                        overallConfidence |-> overallConfidence]]
        /\ completionOrder' = Append(completionOrder, r)

\* fetchPredictionHistoricalData resolved to null: the request failed, the
\* answer was not OK, or it held no feeds.
FetchFails(r) ==
    /\ runs[r].pc = "fetching"
    /\ InsufficientData(r, NoAnswer, 0)
    /\ UNCHANGED <<initialized, clock, nextRun, timerDue, aggregations, classifyVars, beatVars>>

\* fetchPredictionHistoricalData resolved to the clean data of feeds.
FetchReturns(r, feeds) ==
    /\ runs[r].pc = "fetching"
    /\ IF AnalysisOf[feeds].dataPoints < MIN_DATA_POINTS
       THEN InsufficientData(r, feeds, AnalysisOf[feeds].dataPoints)
       ELSE Analysis(r, feeds)
    /\ UNCHANGED <<initialized, clock, nextRun, timerDue, aggregations, classifyVars, beatVars>>

\* The state classifier before it is called on drawn arguments.
InitClassifyIdle ==
    /\ clsArgs = [noise |-> 0, bpm |-> 0, rrInterval |-> 0]
    /\ clsResult = "none"
    /\ confArgs = [totalCount |-> 0, probability |-> Zero, consistency |-> ZeroConsistency]
    /\ confResult = <<>>

(***************************************************************************)
(* The sensing node: readHeartSensor_UltraSensitive and what it calls.     *)
(* Arrays are functions on 0..size-1.  hrv_SDNN and hrv_RMSSD are held in  *)
(* twentieths of a millisecond, rounded down (enough to print them with    *)
(* one decimal); the sums the code accumulates in floats are exact here.   *)
(***************************************************************************)
RATE_SIZE == 4
IR_THRESHOLD == 50000
IR_WINDOW_SIZE == 30
RR_INTERVAL_SIZE == 15
SENSOR_INTERVAL == 100       \* sensorInterval, ms
UPLOAD_INTERVAL == 8000      \* uploadInterval, ms
SOUND_WINDOW == 50           \* the busy wait of readSoundSensor, ms
SETUP_DELAY == 2000          \* delay(2000) of setup(), ms
MIN_AC == 30                 \* irAC below this: signal too weak
MIN_BEAT_DELTA == 400        \* ms, exclusive
MAX_BEAT_DELTA == 3000       \* ms, exclusive
MS_PER_MINUTE == 60000
MIN_BPM == 45
MAX_BPM == 150
MIN_HRV_SAMPLES == 5

(***************************************************************************)
(* Times.  millis() and the unsigned long variables hold 32 bits, and      *)
(* lastBeat is a long of 32 bits.  A 32-bit value is kept as the integer   *)
(* its bits denote in two's complement, which is what a long holds: an     *)
(* unsigned value u below 2^31 is u, one from 2^31 on is u - 2^32.         *)
(* Unsigned arithmetic is done modulo 2^32 on two halves of 16 bits.       *)
(***************************************************************************)
HALF_WORD == 65536           \* 2^16
Hi16(x) == (x - (x % HALF_WORD)) \div HALF_WORD
Lo16(x) == x % HALF_WORD

\* The 32-bit value of high half hi and low half lo, each reduced modulo 2^16
\* after the carry or borrow of lo.
Join32(hi, lo) ==
    LET carry == (lo - (lo % HALF_WORD)) \div HALF_WORD
        h == (hi + carry) % HALF_WORD
    IN  (IF h >= HALF_WORD \div 2 THEN h - HALF_WORD ELSE h) * HALF_WORD + (lo % HALF_WORD)

\* a + b and a - b in unsigned long
Add32(a, b) == Join32(Hi16(a) + Hi16(b), Lo16(a) + Lo16(b))
Sub32(a, b) == Join32(Hi16(a) - Hi16(b), Lo16(a) - Lo16(b))

\* u > k, u < k and u >= k for an unsigned long u and a constant 0 <= k < 2^31
UGt(u, k) == u < 0 \/ u > k
ULt(u, k) == u >= 0 /\ u < k
UGeq(u, k) == u < 0 \/ u >= k

\* The values of the globals after setup(), and of the statics before the
\* first call of detectHeartBeat_Adaptive.
InitialNode(sensorOK) ==
    [max30102OK |-> sensorOK,
     irValue |-> 0, fingerDetected |-> FALSE,
     beatsPerMinute |-> 0, beatAvg |-> 0, beatCount |-> 0, beatDetected |-> FALSE,
     rates |-> [i \in 0..(RATE_SIZE - 1) |-> 0], rateSpot |-> 0, lastBeat |-> 0,
     irWindow |-> [i \in 0..(IR_WINDOW_SIZE - 1) |-> 0],
     irWindowIndex |-> 0, irWindowFull |-> FALSE,
     irBaseline |-> 0, irAmplitude |-> 0, stableReadings |-> 0,
     irDC |-> 0, irAC |-> 0, irMax |-> 0, irMin |-> 999999,
     rrIntervals |-> [i \in 0..(RR_INTERVAL_SIZE - 1) |-> 0], rrIndex |-> 0,
     hrv_SDNN |-> 0, hrv_RMSSD |-> 0, hrvSampleCount |-> 0,
     lastValue |-> 0, inPulse |-> FALSE, pulseStartTime |-> 0, peakValue |-> 0]

\* Sum, maximum and minimum of f[0..n-1].
RECURSIVE SumTo(_, _)
SumTo(f, n) == IF n = 0 THEN 0 ELSE f[n - 1] + SumTo(f, n - 1)

RECURSIVE MaxTo(_, _)
MaxTo(f, n) == IF n = 1 THEN f[0]
               ELSE LET m == MaxTo(f, n - 1) IN IF f[n - 1] > m THEN f[n - 1] ELSE m

RECURSIVE MinTo(_, _)
MinTo(f, n) == IF n = 1 THEN f[0]
               ELSE LET m == MinTo(f, n - 1) IN IF f[n - 1] < m THEN f[n - 1] ELSE m

\* An HRV calculation that reports metrics from the first interval on.
calculateHRVFromFirstSample(n) ==
    IF n.hrvSampleCount < 1
    THEN [n EXCEPT !.hrv_SDNN = 0, !.hrv_RMSSD = 0]
    ELSE LET N == n.hrvSampleCount
             rr == n.rrIntervals
             sum == SumTo(rr, N)
             sumSq == SumTo([i \in 0..(N - 1) |-> rr[i] * rr[i]], N)
             q == N * sumSq - sum * sum
             variance400 == (q \div (N * N)) * 400 + ((q % (N * N)) * 400) \div (N * N)
             sumSquaredDiff ==
                 SumTo([i \in 0..(N - 2) |-> (rr[i + 1] - rr[i]) * (rr[i + 1] - rr[i])], N - 1)
             diffCount == N - 1
         IN  [n EXCEPT !.hrv_SDNN = ISqrt(variance400),
                       !.hrv_RMSSD = IF diffCount > 0
                                     THEN ISqrt((400 * sumSquaredDiff) \div diffCount)
                                     ELSE 0]

\* An HRV calculation whose successive differences run around the ring,
\* from the newest valid entry into the slot after it.
calculateHRVAroundRing(n) ==
    IF n.hrvSampleCount < MIN_HRV_SAMPLES
    THEN [n EXCEPT !.hrv_SDNN = 0, !.hrv_RMSSD = 0]
    ELSE LET N == n.hrvSampleCount
             rr == n.rrIntervals
             sum == SumTo(rr, N)
             sumSq == SumTo([i \in 0..(N - 1) |-> rr[i] * rr[i]], N)
             q == N * sumSq - sum * sum
             variance400 == (q \div (N * N)) * 400 + ((q % (N * N)) * 400) \div (N * N)
             next(i) == rr[(i + 1) % RR_INTERVAL_SIZE]
             sumSquaredDiff ==
                 SumTo([i \in 0..(N - 1) |-> (next(i) - rr[i]) * (next(i) - rr[i])], N)
         IN  [n EXCEPT !.hrv_SDNN = ISqrt(variance400),
                       !.hrv_RMSSD = ISqrt((400 * sumSquaredDiff) \div N)]

\* calculateHRV()
calculateHRV(n) ==
    IF n.hrvSampleCount < MIN_HRV_SAMPLES
    THEN [n EXCEPT !.hrv_SDNN = 0, !.hrv_RMSSD = 0]
    ELSE LET N == n.hrvSampleCount
             rr == n.rrIntervals
             sum == SumTo(rr, N)
             sumSq == SumTo([i \in 0..(N - 1) |-> rr[i] * rr[i]], N)
             \* variance * N^2
             q == N * sumSq - sum * sum
             variance400 == (q \div (N * N)) * 400 + ((q % (N * N)) * 400) \div (N * N)
             sumSquaredDiff ==
                 SumTo([i \in 0..(N - 2) |-> (rr[i + 1] - rr[i]) * (rr[i + 1] - rr[i])], N - 1)
             diffCount == N - 1
         IN  [n EXCEPT !.hrv_SDNN = ISqrt(variance400),
                       !.hrv_RMSSD = IF diffCount > 0
                                     THEN ISqrt((400 * sumSquaredDiff) \div diffCount)
                                     ELSE 0]

\* The beat is admitted: lines 440-464.
AdmitBeat(n, delta) ==
    LET rates2 == [n.rates EXCEPT ![n.rateSpot] = n.beatsPerMinute % 256]
        rrIndex2 == (n.rrIndex + 1) % RR_INTERVAL_SIZE
        valid == {x \in 0..(RATE_SIZE - 1) : rates2[x] > 0}
        total == SumTo(rates2, RATE_SIZE)
    IN  calculateHRV(
          [n EXCEPT !.rates = rates2,
                    !.rrIntervals = [n.rrIntervals EXCEPT ![n.rrIndex] = delta],
                    !.rrIndex = rrIndex2,
                    !.hrvSampleCount = IF rrIndex2 = 0 THEN RR_INTERVAL_SIZE
                                       ELSE IF n.hrvSampleCount < RR_INTERVAL_SIZE
                                            THEN n.hrvSampleCount + 1
                                            ELSE n.hrvSampleCount,
                    !.rateSpot = (n.rateSpot + 1) % RATE_SIZE,
                    !.beatAvg = IF Cardinality(valid) > 0 THEN total \div Cardinality(valid)
                                ELSE 0,
                    !.beatDetected = TRUE])

\* A falling edge that measures the interval up to the start of the pulse.
FallingEdgeTimedFromPulseStart(n, currentTime) ==
    LET delta == n.pulseStartTime - n.lastBeat
        n1 == [n EXCEPT !.inPulse = FALSE]
        n2 == IF n.lastBeat > 0 /\ delta > MIN_BEAT_DELTA /\ delta < MAX_BEAT_DELTA
              THEN LET n3 == [n1 EXCEPT !.beatsPerMinute = MS_PER_MINUTE \div delta,
                                        !.beatCount = n.beatCount + 1]
                   IN  IF n3.beatsPerMinute >= MIN_BPM /\ n3.beatsPerMinute <= MAX_BPM
                       THEN AdmitBeat(n3, delta)
                       ELSE n3
              ELSE n1
    IN  [n2 EXCEPT !.lastBeat = currentTime]

\* A falling edge that admits every BPM it computes.
FallingEdgeAdmittingAnyBPM(n, currentTime) ==
    LET delta == currentTime - n.lastBeat
        n1 == [n EXCEPT !.inPulse = FALSE]
        n2 == IF n.lastBeat > 0 /\ delta > MIN_BEAT_DELTA /\ delta < MAX_BEAT_DELTA
              THEN AdmitBeat([n1 EXCEPT !.beatsPerMinute = MS_PER_MINUTE \div delta,
                                        !.beatCount = n.beatCount + 1], delta)
              ELSE n1
    IN  [n2 EXCEPT !.lastBeat = currentTime]

\* A falling edge that stores the interval of every beat it counts, admitted
\* into the rate buffer or not.
FallingEdgePushingEveryInterval(n, currentTime) ==
    LET delta == currentTime - n.lastBeat
        n1 == [n EXCEPT !.inPulse = FALSE]
        n2 == IF n.lastBeat > 0 /\ delta > MIN_BEAT_DELTA /\ delta < MAX_BEAT_DELTA
              THEN LET n3 == [n1 EXCEPT !.beatsPerMinute = MS_PER_MINUTE \div delta,
                                        !.beatCount = n.beatCount + 1]
                   IN  IF n3.beatsPerMinute >= MIN_BPM /\ n3.beatsPerMinute <= MAX_BPM
                       THEN AdmitBeat(n3, delta)
                       ELSE [n3 EXCEPT !.rrIntervals = [n.rrIntervals EXCEPT ![n.rrIndex] = delta],
                                       !.rrIndex = (n.rrIndex + 1) % RR_INTERVAL_SIZE]
              ELSE n1
    IN  [n2 EXCEPT !.lastBeat = currentTime]

\* A falling edge that accepts any interval above 400 ms.
FallingEdgeWithoutUpperBound(n, currentTime) ==
    LET delta == currentTime - n.lastBeat
        n1 == [n EXCEPT !.inPulse = FALSE]
        n2 == IF n.lastBeat > 0 /\ delta > MIN_BEAT_DELTA
              THEN LET n3 == [n1 EXCEPT !.beatsPerMinute = MS_PER_MINUTE \div delta,
                                        !.beatCount = n.beatCount + 1]
                   IN  IF n3.beatsPerMinute >= MIN_BPM /\ n3.beatsPerMinute <= MAX_BPM
                       THEN AdmitBeat(n3, delta)
                       ELSE n3
              ELSE n1
    IN  [n2 EXCEPT !.lastBeat = currentTime]

\* A falling edge that keeps the reference time when it counts no beat.
FallingEdgeKeepingReference(n, currentTime) ==
    LET delta == currentTime - n.lastBeat
        n1 == [n EXCEPT !.inPulse = FALSE]
    IN  IF n.lastBeat = 0 THEN [n1 EXCEPT !.lastBeat = currentTime]
        ELSE IF delta > MIN_BEAT_DELTA /\ delta < MAX_BEAT_DELTA
             THEN LET n3 == [n1 EXCEPT !.beatsPerMinute = MS_PER_MINUTE \div delta,
                                       !.beatCount = n.beatCount + 1,
                                       !.lastBeat = currentTime]
                  IN  IF n3.beatsPerMinute >= MIN_BPM /\ n3.beatsPerMinute <= MAX_BPM
                      THEN AdmitBeat(n3, delta)
                      ELSE n3
             ELSE n1

\* The falling edge: lines 429-468, at time currentTime = millis().
FallingEdge(n, currentTime) ==
    LET delta == Sub32(currentTime, n.lastBeat)
        n1 == [n EXCEPT !.inPulse = FALSE]
        n2 == IF n.lastBeat > 0 /\ UGt(delta, MIN_BEAT_DELTA) /\ ULt(delta, MAX_BEAT_DELTA)
              THEN LET n3 == [n1 EXCEPT !.beatsPerMinute = MS_PER_MINUTE \div delta,
                                        !.beatCount = n.beatCount + 1]
                   IN  IF n3.beatsPerMinute >= MIN_BPM /\ n3.beatsPerMinute <= MAX_BPM
                       THEN AdmitBeat(n3, delta)
                       ELSE n3
              ELSE n1
    IN  [n2 EXCEPT !.lastBeat = currentTime]

\* A threshold that rounds 30% of the AC component to the nearest integer.
ThresholdRounded(n) == n.irBaseline + (n.irAC * 3 + 5) \div 10

\* The adaptive threshold: baseline + 30% of the AC component.
Threshold(n) == n.irBaseline + (n.irAC * 3) \div 10

\* An edge detector without the test of the AC component.
detectHeartBeatWithoutGuard(n, now) ==
    LET threshold == Threshold(n)
        rising == ~n.inPulse /\ n.irValue > threshold /\ n.lastValue <= threshold
        n1 == IF rising
              THEN [n EXCEPT !.inPulse = TRUE, !.pulseStartTime = now,
                             !.peakValue = n.irValue,
                             !.stableReadings = n.stableReadings + 1]
              ELSE n
        n2 == IF n1.inPulse
              THEN LET n3 == IF n1.irValue > n1.peakValue
                             THEN [n1 EXCEPT !.peakValue = n1.irValue]
                             ELSE n1
                   IN  IF n3.irValue < threshold THEN FallingEdge(n3, now) ELSE n3
              ELSE n1
    IN  [n2 EXCEPT !.lastValue = n.irValue]

\* detectHeartBeat_Adaptive(), at time now = millis().
detectHeartBeat_Adaptive(n, now) ==
    IF n.irAC < MIN_AC THEN [n EXCEPT !.stableReadings = 0]
    ELSE LET threshold == Threshold(n)
             rising == ~n.inPulse /\ n.irValue > threshold /\ n.lastValue <= threshold
             n1 == IF rising
                   THEN [n EXCEPT !.inPulse = TRUE, !.pulseStartTime = now,
                                  !.peakValue = n.irValue,
                                  !.stableReadings = n.stableReadings + 1]
                   ELSE n
             n2 == IF n1.inPulse
                   THEN LET n3 == IF n1.irValue > n1.peakValue
                                  THEN [n1 EXCEPT !.peakValue = n1.irValue]
                                  ELSE n1
                        IN  IF n3.irValue < threshold THEN FallingEdge(n3, now) ELSE n3
                   ELSE n1
         IN  [n2 EXCEPT !.lastValue = n.irValue]

\* calculateACDC()
calculateACDC(n) ==
    LET sum == SumTo(n.irWindow, IR_WINDOW_SIZE)
        max == MaxTo(n.irWindow, IR_WINDOW_SIZE)
        min == MinTo(n.irWindow, IR_WINDOW_SIZE)
    IN  [n EXCEPT !.irMax = max, !.irMin = min,
                  !.irBaseline = sum \div IR_WINDOW_SIZE,
                  !.irDC = sum \div IR_WINDOW_SIZE,
                  !.irAmplitude = max - min,
                  !.irAC = (max - min) \div 2]

\* A reset that also empties the R-R interval history.
NoFingerResetClearingHRV(n) ==
    [n EXCEPT !.beatsPerMinute = 0, !.beatAvg = 0, !.beatCount = 0, !.irBaseline = 0,
              !.stableReadings = 0, !.irWindowFull = FALSE, !.irWindowIndex = 0,
              !.rrIndex = 0, !.hrvSampleCount = 0, !.hrv_SDNN = 0, !.hrv_RMSSD = 0]

\* A reset that leaves the sliding window as it is.
NoFingerResetKeepingWindow(n) ==
    [n EXCEPT !.beatsPerMinute = 0, !.beatAvg = 0, !.beatCount = 0, !.irBaseline = 0,
              !.stableReadings = 0]

\* A reset that holds the last heart rates.
NoFingerResetHoldingRates(n) ==
    [n EXCEPT !.beatCount = 0, !.irBaseline = 0,
              !.stableReadings = 0, !.irWindowFull = FALSE, !.irWindowIndex = 0]

\* A reset that also empties the rate buffer.
NoFingerResetClearingRates(n) ==
    [n EXCEPT !.beatsPerMinute = 0, !.beatAvg = 0, !.beatCount = 0, !.irBaseline = 0,
              !.stableReadings = 0, !.irWindowFull = FALSE, !.irWindowIndex = 0,
              !.rates = [x \in 0..(RATE_SIZE - 1) |-> 0], !.rateSpot = 0]

\* "Reset all variables when no finger": lines 350-356.
NoFingerReset(n) ==
    [n EXCEPT !.beatsPerMinute = 0, !.beatAvg = 0, !.beatCount = 0, !.irBaseline = 0,
              !.stableReadings = 0, !.irWindowFull = FALSE, !.irWindowIndex = 0]

\* readHeartSensor_UltraSensitive(), with ir the value heartSensor.getIR()
\* returns and now the value of millis() during the call.
readHeartSensor_UltraSensitive(n, ir, now) ==
    IF ~n.max30102OK
    THEN [n EXCEPT !.irValue = 0, !.fingerDetected = FALSE,
                   !.beatsPerMinute = 0, !.beatAvg = 0]
    ELSE LET n1 == [n EXCEPT !.irValue = ir, !.fingerDetected = (ir > IR_THRESHOLD)]
         IN  IF ~n1.fingerDetected THEN NoFingerReset(n1)
             ELSE LET wrapped == n1.irWindowIndex + 1 >= IR_WINDOW_SIZE
                      n2 == [n1 EXCEPT !.irWindow = [n1.irWindow EXCEPT ![n1.irWindowIndex] = ir],
                                       !.irWindowIndex = IF wrapped THEN 0
                                                         ELSE n1.irWindowIndex + 1,
                                       !.irWindowFull = wrapped \/ n1.irWindowFull]
                  IN  IF n2.irWindowFull
                      THEN detectHeartBeat_Adaptive(calculateACDC(n2), now)
                      ELSE n2

(***************************************************************************)
(* The optical signal.  The pulse under the sensor is a periodic waveform, *)
(* a cycle of segments <<level, ticks>>, fixed for a behaviour; a sample   *)
(* taken with the finger on the sensor is the level of the waveform at     *)
(* that tick, a sample taken without it is at or below IR_THRESHOLD.       *)
(***************************************************************************)
IrLow == 100000
IrHigh == 100200         \* window amplitude 200: irAC = 100
IrFaint == 100040        \* window amplitude 40: irAC = 20, too weak
NoFingerLevels == {IR_THRESHOLD}

\* k cycles of the segments s.
RECURSIVE Repeat(_, _)
Repeat(s, k) == IF k = 0 THEN <<>> ELSE s \o Repeat(s, k - 1)

Waveforms ==
    << \* a beat every 500 ms: 120 BPM
       << <<IrHigh, 1>>, <<IrLow, 4>> >>,
       \* a beat every 1000 ms, two samples wide: 60 BPM
       << <<IrHigh, 2>>, <<IrLow, 8>> >>,
       \* a beat every 1400 ms: 42 BPM, outside [45,150]
       << <<IrHigh, 1>>, <<IrLow, 13>> >>,
       \* a beat every 400 ms: the interval is not above 400 ms
       << <<IrHigh, 1>>, <<IrLow, 3>> >>,
       \* beats 500 ms and 700 ms apart in turn: 120 and 85 BPM
       << <<IrHigh, 1>>, <<IrLow, 4>>, <<IrHigh, 1>>, <<IrLow, 6>> >>,
       \* a faint pulse every 500 ms
       << <<IrFaint, 1>>, <<IrLow, 4>> >>,
       \* a beat every 1000 ms, half of the period above the threshold
       << <<IrHigh, 5>>, <<IrLow, 5>> >>,
       \* nine beats 500 ms apart, then seven faint ones: the pulse fades
       \* for longer than the window holds
       Repeat(<< <<IrHigh, 1>>, <<IrLow, 4>> >>, 9)
           \o Repeat(<< <<IrFaint, 1>>, <<IrLow, 4>> >>, 7) >>

\* The period of a waveform, in ms.
WavePeriod(wave) ==
    SENSOR_INTERVAL * SumSeq([i \in 1..Len(Waveforms[wave]) |-> Waveforms[wave][i][2]])

\* The waveform at the start of segment seg of wave.
SignalAt(wave, seg) == [wave |-> wave, seg |-> seg, left |-> Waveforms[wave][seg][2]]

\* The level the sensor sees now, and the waveform one tick later.
SignalLevel(sig) == Waveforms[sig.wave][sig.seg][1]
SignalStep(sig) ==
    IF sig.left > 1 THEN [sig EXCEPT !.left = sig.left - 1]
    ELSE SignalAt(sig.wave, (sig.seg % Len(Waveforms[sig.wave])) + 1)

InitBeat ==
    /\ node \in {InitialNode(ok) : ok \in BOOLEAN}
    /\ millis = SETUP_DELAY
    /\ ticks = 0
    /\ noFingerTicks = 0
    /\ fingerRun = 0
    /\ lossTime = 0
    /\ admittedRates = <<>>
    /\ signal \in {SignalAt(w, 1) : w \in 1..Len(Waveforms)}
    /\ hrvCall = "idle"
    /\ lastUploadTime = 0
    /\ uploadLog = <<>>

\* The call that took the node from n to m computed a BPM (beatCount++) and
\* found it within [45,150]: the test of line 439.
BeatAdmitted(n, m) ==
    /\ m.beatCount = n.beatCount + 1
    /\ m.beatsPerMinute >= MIN_BPM /\ m.beatsPerMinute <= MAX_BPM

\* The last RATE_SIZE elements of a sequence.
LatestRates(s) == IF Len(s) > RATE_SIZE THEN SubSeq(s, Len(s) - RATE_SIZE + 1, Len(s)) ELSE s

\* currentMillis - lastUploadTime >= uploadInterval
UploadDue == UGeq(Sub32(millis, lastUploadTime), UPLOAD_INTERVAL)

\* The body of the acquisition branch of loop(): readSoundSensor() takes
\* SOUND_WINDOW ms, then the heart sensor is read.
ReadSensors(ir) ==
    /\ ~UploadDue
    /\ ticks' = ticks + 1
    /\ fingerRun' = IF ir > IR_THRESHOLD THEN Min(fingerRun + 1, IR_WINDOW_SIZE) ELSE 0
    /\ lossTime' = IF ir > IR_THRESHOLD THEN lossTime ELSE Add32(Add32(millis, SENSOR_INTERVAL), SOUND_WINDOW)
    /\ millis' = Add32(millis, SENSOR_INTERVAL)
    /\ signal' = SignalStep(signal)
    /\ node' = readHeartSensor_UltraSensitive(node, ir, Add32(millis', SOUND_WINDOW))
    /\ admittedRates' = IF BeatAdmitted(node, node')
                        THEN LatestRates(Append(admittedRates, node'.beatsPerMinute))
                        ELSE admittedRates

\* An acquisition tick of BeatSpec.
AcquisitionTick(ir) == ticks < MaxTicks /\ ReadSensors(ir)

\* A tick with the finger on the sensor.
FingerTick ==
    /\ AcquisitionTick(SignalLevel(signal))
    /\ UNCHANGED <<noFingerTicks, hrvCall, lastUploadTime, uploadLog, forecastVars, classifyVars>>

\* A tick with no finger on the sensor.
NoFingerTick ==
    /\ noFingerTicks < MaxNoFingerTicks
    /\ noFingerTicks' = noFingerTicks + 1
    /\ \E ir \in NoFingerLevels : AcquisitionTick(ir)
    /\ UNCHANGED <<hrvCall, lastUploadTime, uploadLog, forecastVars, classifyVars>>

\* String(x, 1) of a float held in twentieths: the nearest tenth.
OneDecimal(twentieths) == (twentieths + 1) \div 2

\* The fields of the request of uploadToThingSpeak that come from the heart
\* sensor, field 3 in tenths.
Request(n) ==
    [field3 |-> OneDecimal(n.hrv_RMSSD),
     field5 |-> n.beatAvg, field6 |-> n.beatsPerMinute,
     field7 |-> IF n.fingerDetected THEN 1 ELSE 0]

\* An upload that sends the readings of the tick before when that tick's
\* upload failed.
uploadToThingSpeakResending(connected) ==
    LET pending == IF uploadLog # <<>> /\ uploadLog[Len(uploadLog)].sent = <<>>
                   THEN uploadLog[Len(uploadLog)].readings
                   ELSE Request(node)
    IN  uploadLog' = Append(uploadLog, [time |-> millis, readings |-> Request(node),
                                        sent |-> IF connected THEN <<pending>> ELSE <<>>])

\* uploadToThingSpeak(): nothing is sent when WiFi is down or the connection
\* is refused.  The log keeps, with the request sent, the readings of the tick.
uploadToThingSpeak(connected) ==
    uploadLog' = Append(uploadLog, [time |-> millis, readings |-> Request(node),
                                    sent |-> IF connected THEN <<Request(node)>> ELSE <<>>])

\* The upload branch of loop().
UploadTick ==
    /\ UploadDue
    /\ lastUploadTime' = millis
    /\ \E connected \in BOOLEAN : uploadToThingSpeak(connected)
    /\ UNCHANGED <<node, millis, ticks, noFingerTicks, fingerRun, lossTime, admittedRates, signal, hrvCall,
                   forecastVars, classifyVars>>

NextBeat == FingerTick \/ NoFingerTick \/ UploadTick

InitBeatSpec == InitForecast /\ InitClassifyIdle /\ InitBeat

BeatSpec == InitBeatSpec /\ [][NextBeat]_vars

(***************************************************************************)
(* The sensing node over several upload intervals, the finger staying on   *)
(* the sensor.                                                             *)
(***************************************************************************)
SteadyTick ==
    /\ ticks < MaxUploadTicks
    /\ ReadSensors(SignalLevel(signal))
    /\ UNCHANGED <<noFingerTicks, hrvCall, lastUploadTime, uploadLog, forecastVars, classifyVars>>

NextUpload == SteadyTick \/ UploadTick

UploadSpec == InitBeatSpec /\ [][NextUpload]_vars

(***************************************************************************)
(* The sensing node late in a long run.  No finger has been on the sensor  *)
(* since power-up, so the heart-rate state is as setup() left it; millis() *)
(* is at a drawn value: a small one, one shortly before 2^31, one above    *)
(* 2^31, one shortly before it wraps at 2^32.  The latest tick read no     *)
(* finger, the latest upload was 3000 ms ago; ticks, noFingerTicks and     *)
(* uploadLog count from this moment.  From here on the finger stays on the *)
(* sensor.                                                                 *)
(***************************************************************************)
LONG_MAX == 2147483647       \* 2^31 - 1, the largest value of a long
StartClocks == {10000, LONG_MAX - 5999, (-LONG_MAX - 1) + 100000, -6000}
SinceLastUpload == 3000

InitClockSpec ==
    /\ InitForecast /\ InitClassifyIdle
    /\ millis \in StartClocks
    /\ node = [InitialNode(TRUE) EXCEPT !.irValue = IR_THRESHOLD]
    /\ ticks = 0
    /\ noFingerTicks = 0
    /\ fingerRun = 0
    /\ lossTime = Add32(millis, SOUND_WINDOW)
    /\ admittedRates = <<>>
    /\ signal \in {SignalAt(w, 1) : w \in 1..Len(Waveforms)}
    /\ hrvCall = "idle"
    /\ lastUploadTime = Sub32(millis, SinceLastUpload)
    /\ uploadLog = <<>>

ClockSpec == InitClockSpec /\ [][NextUpload]_vars

(***************************************************************************)
(* The sensing node as its window fills: 29 ticks with the finger on the   *)
(* sensor have stored a drawn pulse, detectHeartBeat_Adaptive has not been *)
(* called yet, and the next ticks sample drawn levels around the           *)
(* threshold.                                                              *)
(***************************************************************************)
PeakToPeaks == 58..72                  \* irAC from 29 to 36
PeakSlot == 15                         \* where in the window the peak of the pulse is
ProbeOffsets == {0, 11, 12, 13, 72}    \* samples drawn, above IrLow

DrawnWindow(p2p) ==
    [i \in 0..(IR_WINDOW_SIZE - 1) |->
        IF i = IR_WINDOW_SIZE - 1 THEN 0 ELSE IF i = PeakSlot THEN IrLow + p2p ELSE IrLow]

InitThreshold ==
    /\ InitForecast /\ InitClassifyIdle
    /\ \E p2p \in PeakToPeaks :
          node = [InitialNode(TRUE) EXCEPT !.irWindow = DrawnWindow(p2p),
                                           !.irWindowIndex = IR_WINDOW_SIZE - 1,
                                           !.irValue = IrLow, !.fingerDetected = TRUE]
    /\ ticks = IR_WINDOW_SIZE - 1
    /\ millis = SETUP_DELAY + (IR_WINDOW_SIZE - 1) * SENSOR_INTERVAL
    /\ noFingerTicks = 0
    /\ fingerRun = IR_WINDOW_SIZE - 1
    /\ lossTime = 0
    /\ admittedRates = <<>>
    /\ signal = SignalAt(1, 1)
    /\ hrvCall = "idle"
    /\ lastUploadTime = 0
    /\ uploadLog = <<>>

ThresholdTick ==
    /\ ticks < IR_WINDOW_SIZE - 1 + MaxWindowTicks
    /\ \E d \in ProbeOffsets : ReadSensors(IrLow + d)
    /\ UNCHANGED <<noFingerTicks, hrvCall, lastUploadTime, uploadLog, forecastVars, classifyVars>>

NextThreshold == ThresholdTick

ThresholdSpec == InitThreshold /\ [][NextThreshold]_vars

\* The sensing node before its first tick, for the other specifications.
InitBeatIdle ==
    /\ node = InitialNode(TRUE)
    /\ millis = SETUP_DELAY
    /\ ticks = 0
    /\ noFingerTicks = 0
    /\ fingerRun = 0
    /\ lossTime = 0
    /\ admittedRates = <<>>
    /\ signal = SignalAt(1, 1)
    /\ hrvCall = "idle"
    /\ lastUploadTime = 0
    /\ uploadLog = <<>>

Init == InitForecast /\ InitClassifyIdle /\ InitBeatIdle

Next ==
    \/ initializePredictionModule
    \/ HourPasses
    \/ TimerFires
    \/ \E r \in RunIds : FetchFails(r)
    \/ \E r \in RunIds : \E feeds \in DatasetIds : FetchReturns(r, feeds)

Spec == Init /\ [][Next]_vars

(***************************************************************************)
(* The state classifier on its own: the arguments are drawn, the call is   *)
(* made.  Noise and R-R interval are in tenths.                            *)
(***************************************************************************)
NoiseValues == {0, 250, 549, 550, 551, 850}
BpmValues == {-5, 0, 39, 40, 41, 59, 60, 70, 80, 81, 199, 200, 201, 255}
RrValues == {0, 6999, 7000, 7001, 12000}

InitClassify ==
    /\ InitForecast
    /\ InitBeatIdle
    /\ clsArgs \in [noise : NoiseValues, bpm : BpmValues, rrInterval : RrValues]
    /\ clsResult = "none"
    /\ confArgs = [totalCount |-> 0, probability |-> Zero, consistency |-> ZeroConsistency]
    /\ confResult = <<>>

Classify ==
    /\ clsResult = "none"
    /\ clsResult' = classifyStateForPrediction(clsArgs.noise, clsArgs.bpm, clsArgs.rrInterval)
    /\ UNCHANGED <<clsArgs, confArgs, confResult, forecastVars, beatVars>>

NextClassify == Classify

ClassifySpec == InitClassify /\ [][NextClassify]_vars

(***************************************************************************)
(* calculatePredictionConfidence applied to drawn patterns: a sample count,*)
(* a probability num/den and a consistency 1 - sqrt(rad)/den in [0,1].     *)
(***************************************************************************)
SampleCounts == {0, 9, 10, 11, 20, 49, 50, 60}
Probabilities == {Ratio(0, 1), Ratio(1, 2), Ratio(1, 1)} \cup {Ratio(pn, 5) : pn \in 0..5}
Consistencies == {OneMinusSqrt(0, 1), OneMinusSqrt(1, 1), OneMinusSqrt(1, 2),
                  OneMinusSqrt(1, 5), OneMinusSqrt(4, 5), OneMinusSqrt(6, 5)}

InitConfidence ==
    /\ InitForecast
    /\ InitBeatIdle
    /\ clsArgs = [noise |-> 0, bpm |-> 0, rrInterval |-> 0]
    /\ clsResult = "none"
    /\ confArgs \in {[totalCount |-> n, probability |-> p, consistency |-> c] :
                        n \in SampleCounts,
                        p \in Probabilities,
                        c \in Consistencies}
    /\ confResult = <<>>

Confidence ==
    /\ confResult = <<>>
    /\ confResult' = <<calculatePredictionConfidence(confArgs)>>
    /\ UNCHANGED <<clsArgs, clsResult, confArgs, forecastVars, beatVars>>

NextConfidence == Confidence

ConfidenceSpec == InitConfidence /\ [][NextConfidence]_vars

(***************************************************************************)
(* calculateHRV() applied to drawn interval buffers.  A buffer holds count *)
(* intervals in slots 0..count-1, all equal to one admitted interval       *)
(* except, possibly, one slot; the slots never written hold 0.  The two    *)
(* metrics hold what an earlier call left.                                 *)
(***************************************************************************)
RrDrawn == {401, 500, 1000, 1333}
HrvLeft == {0, 2000}

DrawnBuffer(count, v, odd, w) ==
    [i \in 0..(RR_INTERVAL_SIZE - 1) |->
        IF i >= count THEN 0 ELSE IF i = odd THEN w ELSE v]

InitHRV ==
    /\ InitForecast /\ InitClassifyIdle
    /\ millis = SETUP_DELAY /\ ticks = 0 /\ noFingerTicks = 0 /\ fingerRun = 0 /\ lossTime = 0 /\ admittedRates = <<>>
    /\ signal = SignalAt(1, 1)
    /\ hrvCall = "entry"
    /\ lastUploadTime = 0 /\ uploadLog = <<>>
    /\ \E count \in 0..RR_INTERVAL_SIZE, v \in RrDrawn, w \in RrDrawn,
          odd \in 0..RR_INTERVAL_SIZE, left \in HrvLeft :
          node = [InitialNode(TRUE) EXCEPT
                     !.rrIntervals = DrawnBuffer(count, v, odd, w),
                     !.hrvSampleCount = count,
                     !.rrIndex = count % RR_INTERVAL_SIZE,
                     !.hrv_SDNN = left, !.hrv_RMSSD = left]

\* The call of calculateHRV.
CallHRV ==
    /\ hrvCall = "entry"
    /\ hrvCall' = "returned"
    /\ node' = calculateHRV(node)
    /\ UNCHANGED <<millis, ticks, noFingerTicks, fingerRun, lossTime, admittedRates, signal, lastUploadTime, uploadLog,
                   forecastVars, classifyVars>>

NextHRV == CallHRV

HrvSpec == InitHRV /\ [][NextHRV]_vars

(***************************************************************************)
(* analyzeTemporalPatterns applied, call after call, to drawn data: the    *)
(* clean data of one of the answers, or no record at all.                  *)
(***************************************************************************)
NoRecords == 0
AggregationInputs == {NoRecords} \cup DatasetIds

InputData(input) == IF input = NoRecords THEN <<>> ELSE CleanData(Datasets[input])

\* What analyzeTemporalPatterns returns for each input, tabulated once.
PatternsOf == [input \in AggregationInputs |-> analyzeTemporalPatterns(InputData(input))]

\* A call that goes on accumulating in the object the call before it built.
AggregationOntoEarlier(earlier, input) ==
    IF earlier = <<>> THEN PatternsOf[input]
    ELSE LET old == earlier[Len(earlier)].patterns
             new == PatternsOf[input]
         IN  [key \in DOMAIN new |->
                 LET acc == [day |-> key[1], hour |-> key[2],
                             flowStateCount |-> old[key].flowStateCount + new[key].flowStateCount,
                             totalCount |-> old[key].totalCount + new[key].totalCount,
                             noiseSum |-> old[key].noiseSum + new[key].noiseSum,
                             bpmSum |-> old[key].bpmSum + new[key].bpmSum,
                             rrIntervalSum |-> old[key].rrIntervalSum + new[key].rrIntervalSum]
                     st == Statistics(acc)
                 IN  [day |-> acc.day, hour |-> acc.hour,
                      flowStateCount |-> acc.flowStateCount, totalCount |-> acc.totalCount,
                      noiseSum |-> acc.noiseSum, bpmSum |-> acc.bpmSum,
                      rrIntervalSum |-> acc.rrIntervalSum,
                      avgNoise |-> st.avgNoise, avgBPM |-> st.avgBPM,
                      avgRRInterval |-> st.avgRRInterval,
                      probability |-> st.probability, consistency |-> st.consistency]]

\* The object a call returns, given the calls made before it: hourlyPatterns
\* is a new object in every call (line 175).
Aggregation(earlier, input) == PatternsOf[input]

AggregateCall(input) ==
    /\ Len(aggregations) < MaxAggregations
    /\ aggregations' = Append(aggregations,
                              [input |-> input, patterns |-> Aggregation(aggregations, input)])
    /\ UNCHANGED <<predictionData, pdWriter, initialized, clock, nextRun, timerDue, runs,
                   completionOrder, ui, classifyVars, beatVars>>

NextAggregate == \E input \in AggregationInputs : AggregateCall(input)

AggregateSpec == Init /\ [][NextAggregate]_vars

(***************************************************************************)
(* Properties of the prediction module                                     *)
(***************************************************************************)
Finished == {r \in RunIds : runs[r].pc = "done"}
Returned == {r \in RunIds : runs[r].result = "predictions"}

\* C1: every prediction a forecast run returns has a sample size of at
\* least 10.
C1_ReturnedHaveTenSamples ==
    \A r \in Returned : \A i \in 1..Len(runs[r].predictions) :
        runs[r].predictions[i].sampleSize >= 10

\* C2: a forecast run returns at most 5 predictions, each from a cell whose
\* probability is at least 0.30.
C2_AtMostFiveAboveThreshold ==
    \A r \in Returned :
        /\ Len(runs[r].predictions) <= 5
        /\ \A i \in 1..Len(runs[r].predictions) :
              10 * runs[r].predictions[i].probability.num
                  >= 3 * runs[r].predictions[i].probability.den

\* C2 witness: a run returned five predictions (seven cells were at or above
\* the threshold), the weakest of them at probability 1/2.
C2_Witness ==
    \E r \in Returned :
        /\ Len(runs[r].predictions) = 5
        /\ 2 * runs[r].predictions[5].probability.num = runs[r].predictions[5].probability.den

\* The run whose continuation ran last.
LastCompleted == completionOrder[Len(completionOrder)]

\* C3: when the last run to complete found fewer than 100 valid samples, it
\* produced no predictions and the data-quality label of predictionData is
\* "insufficient", whatever ran before it.
C3_InsufficientRunLeavesInsufficient ==
    (/\ completionOrder # <<>>
     /\ runs[LastCompleted].result = "null"
     /\ runs[LastCompleted].dataPoints > 0)
    => /\ runs[LastCompleted].predictions = <<>>
       /\ predictionData.dataQuality = "insufficient"

\* C4: between the steps of the event loop the four fields of predictionData
\* are the initial ones, or were all written by one run and are that run's
\* results.
C4_SnapshotOfOneRun ==
    LET w == pdWriter.predictions
    IN  /\ pdWriter.lastUpdate = w /\ pdWriter.confidence = w /\ pdWriter.dataQuality = w
        /\ IF w = 0 THEN predictionData = InitialPredictionData
           ELSE /\ runs[w].result = "predictions"
                /\ predictionData.predictions = runs[w].predictions
                /\ predictionData.confidence
                      = calculateOverallConfidence(runs[w].predictions, runs[w].dataPoints)
                /\ predictionData.dataQuality = assessDataQuality(runs[w].dataPoints)

\* C4 witness: runs 1 and 2 overlapped (2 completed first), both stored
\* results of different data quality, and the snapshot is run 1's.
C4_Witness ==
    /\ Len(completionOrder) >= 2
    /\ completionOrder[1] = 2 /\ completionOrder[2] = 1
    /\ runs[1].result = "predictions" /\ runs[2].result = "predictions"
    /\ assessDataQuality(runs[1].dataPoints) # assessDataQuality(runs[2].dataPoints)
    /\ pdWriter.predictions = 1

\* C5: whenever the interval timer is due, the call of runPredictionAnalysis
\* can be made, also while earlier calls await their fetch.
C5_TimerStartsRunWhileFetching ==
    (timerDue /\ \E r \in RunIds : runs[r].pc = "fetching") => ENABLED TimerFires

\* C5 witness: two runs are waiting for their historical fetch at once.
C5_Witness ==
    \E r1, r2 \in RunIds : r1 # r2 /\ runs[r1].pc = "fetching" /\ runs[r2].pc = "fetching"

\* The runs that stored results, in the order of their completion.
StoredInOrder == SelectSeq(completionOrder, LAMBDA r : runs[r].result = "predictions")

\* C6: the stored prediction list is the output of the run that was the last
\* to complete with results, whichever run started first.
C6_LastWriteWins ==
    StoredInOrder # <<>> =>
        LET last == StoredInOrder[Len(StoredInOrder)]
        IN  /\ predictionData.predictions = runs[last].predictions
            /\ pdWriter.predictions = last

\* C6 witness: run 2 started after run 1 and completed before it, with other
\* predictions; the list left is run 1's.
C6_Witness ==
    /\ StoredInOrder = <<2, 1>>
    /\ runs[1].predictions # runs[2].predictions
    /\ runs[2].predictions # <<>>
    /\ predictionData.predictions = runs[1].predictions

(***************************************************************************)
(* Properties of the state classifier                                      *)
(***************************************************************************)
\* C7: for bpm < 40 or bpm > 200 the classifier returns Standby, whatever
\* the noise level and the R-R interval.
C7_OutOfRangeIsStandby ==
    (clsResult # "none" /\ (clsArgs.bpm < 40 \/ clsArgs.bpm > 200)) => clsResult = "Standby"

\* C7 witness: a loud sample with a long R-R interval and bpm 201 was
\* classified Standby.
C7_Witness ==
    /\ clsResult = "Standby"
    /\ clsArgs.bpm = 201 /\ clsArgs.noise = 850 /\ clsArgs.rrInterval = 12000

\* C8: for bpm in [40,200] the result follows the quadrant rule with
\* isQuiet = noise < 55.0 and isGoodPhysio = rr > 700 or 60 <= bpm <= 80.
C8_QuadrantRule ==
    (clsResult # "none" /\ clsArgs.bpm >= 40 /\ clsArgs.bpm <= 200) =>
        LET quiet == clsArgs.noise < 550
            good == clsArgs.rrInterval > 7000 \/ (60 <= clsArgs.bpm /\ clsArgs.bpm <= 80)
        IN  /\ (quiet /\ good) => clsResult = "Flow State"
            /\ (~quiet /\ good) => clsResult = "Normal Learning"
            /\ (quiet /\ ~good) => clsResult = "Standby"
            /\ (~quiet /\ ~good) => clsResult = "Distracted"

\* C8 witness: at the bounds (bpm 200, noise exactly 55.0, R-R exactly 700)
\* the sample is loud and not good: Distracted.
C8_Witness ==
    /\ clsResult = "Distracted"
    /\ clsArgs.bpm = 200 /\ clsArgs.noise = 550 /\ clsArgs.rrInterval = 7000

(***************************************************************************)
(* Properties of the sensing node                                          *)
(***************************************************************************)
\* C9: after an acquisition tick whose optical intensity is at or below the
\* detection threshold, the window fill flag and index are reset, and the
\* baseline, the stable-readings counter, the in-pulse flag and both heart
\* rates are zero.
C9_NoFingerResetsDetector ==
    (ticks > 0 /\ node.irValue <= IR_THRESHOLD) =>
        /\ node.irWindowFull = FALSE /\ node.irWindowIndex = 0
        /\ node.irBaseline = 0 /\ node.stableReadings = 0
        /\ node.inPulse = FALSE
        /\ node.beatsPerMinute = 0 /\ node.beatAvg = 0

\* C10: an acquisition tick that finds no finger leaves the R-R interval
\* buffer, its write index, its sample count and the last SDNN and RMSSD
\* as they were.
C10_NoFingerKeepsHRVHistory ==
    [][(ticks' = ticks + 1 /\ ~node'.fingerDetected) =>
            /\ node'.rrIntervals = node.rrIntervals
            /\ node'.rrIndex = node.rrIndex
            /\ node'.hrvSampleCount = node.hrvSampleCount
            /\ node'.hrv_SDNN = node.hrv_SDNN
            /\ node'.hrv_RMSSD = node.hrv_RMSSD]_vars

\* C10 witness: the finger has just left a detector that was tracking, with
\* five intervals in the buffer and both HRV metrics above zero.
C10_Witness ==
    /\ ~node.fingerDetected /\ node.irValue = IR_THRESHOLD
    /\ ~node.irWindowFull /\ node.lastBeat > 0
    /\ node.hrvSampleCount >= 5 /\ node.hrv_RMSSD > 0 /\ node.hrv_SDNN > 0

\* C11: the R-R interval buffer holds 0 to 15 valid entries (count in 0..15,
\* write index in 0..14), and with fewer than 5 entries SDNN and RMSSD are 0.
C11_HRVBufferBounded ==
    /\ node.hrvSampleCount \in 0..RR_INTERVAL_SIZE
    /\ node.rrIndex \in 0..(RR_INTERVAL_SIZE - 1)
    /\ node.hrvSampleCount < MIN_HRV_SAMPLES => (node.hrv_SDNN = 0 /\ node.hrv_RMSSD = 0)

\* C11 witness: the fifteenth interval has been stored and the write index
\* is back at slot 0.
C11_Witness ==
    /\ node.hrvSampleCount = RR_INTERVAL_SIZE /\ node.rrIndex = 0
    /\ \A i \in 0..(RR_INTERVAL_SIZE - 1) : node.rrIntervals[i] > 0

\* C12: the rate buffer has 4 slots, every non-zero slot holds a BPM in
\* [45,150], the averaged heart rate is 0 or in [45,150]; and a tick that
\* computes an instantaneous BPM outside [45,150] changes neither the rate
\* buffer nor the averaged heart rate.
C12_RatesHoldValidBPM ==
    /\ [](/\ DOMAIN node.rates = 0..(RATE_SIZE - 1)
          /\ \A x \in 0..(RATE_SIZE - 1) :
                node.rates[x] = 0 \/ node.rates[x] \in MIN_BPM..MAX_BPM
          /\ node.beatAvg = 0 \/ node.beatAvg \in MIN_BPM..MAX_BPM)
    /\ [][(/\ node'.beatCount = node.beatCount + 1
           /\ node'.beatsPerMinute \notin MIN_BPM..MAX_BPM)
            => (node'.rates = node.rates /\ node'.beatAvg = node.beatAvg)]_vars

\* C12 witness: with an admitted beat in the rate buffer, the latest tick
\* computed a BPM below 45 and the average is still that of the buffer.
C12_Witness ==
    /\ node.fingerDetected /\ node.beatCount >= 2
    /\ node.beatsPerMinute > 0 /\ node.beatsPerMinute < MIN_BPM
    /\ node.rates[0] >= MIN_BPM /\ node.beatAvg = node.rates[0]

\* C13: with the finger on the sensor throughout, ticks 100 ms apart, AC
\* component at least 30 and a waveform that crosses the threshold once per
\* 1000 ms, the averaged heart rate is 60 once four beats have been accepted
\* after the window filled, and at every later tick.
C13_SteadyPulseAveragesSixty ==
    (/\ node.max30102OK /\ noFingerTicks = 0
     /\ WavePeriod(signal.wave) = 1000
     /\ node.irWindowFull /\ node.irAC >= MIN_AC
     /\ node.hrvSampleCount >= 4)
        => node.beatAvg = 60

\* C13 witness: the 1000 ms waveform has been read without interruption and
\* a seventh beat has been accepted with all four rate slots in use.
C13_Witness ==
    /\ node.max30102OK /\ noFingerTicks = 0 /\ WavePeriod(signal.wave) = 1000
    /\ node.hrvSampleCount >= 7 /\ node.beatAvg = 60
    /\ \A x \in 0..(RATE_SIZE - 1) : node.rates[x] = 60

\* C14: after calculateHRV has run on a buffer of at least 5 intervals whose
\* valid entries are all equal, SDNN = 0 and RMSSD = 0.
C14_ConstantIntervalsGiveZeroHRV ==
    (/\ hrvCall = "returned"
     /\ node.hrvSampleCount >= MIN_HRV_SAMPLES
     /\ \A i \in 0..(node.hrvSampleCount - 1) : node.rrIntervals[i] = node.rrIntervals[0])
        => (node.hrv_SDNN = 0 /\ node.hrv_RMSSD = 0)

\* C14 witness: the call has returned on seven intervals of 1000 ms.
C14_Witness ==
    /\ hrvCall = "returned" /\ node.hrvSampleCount = 7
    /\ \A i \in 0..6 : node.rrIntervals[i] = 1000
    /\ node.hrv_SDNN = 0 /\ node.hrv_RMSSD = 0

C16_AllCellsExist ==
    \A k \in 1..Len(aggregations) :
        LET patterns == aggregations[k].patterns
            data == InputData(aggregations[k].input)
        IN  /\ DOMAIN patterns = (0..6) \X (0..23)
            /\ Cardinality(DOMAIN patterns) = 168
            /\ \A key \in DOMAIN patterns :
                  /\ patterns[key].day = key[1] /\ patterns[key].hour = key[2]
                  /\ (\A i \in 1..Len(data) : ~InCell(data[i], key[1], key[2]))
                        => /\ patterns[key].totalCount = 0
                           /\ patterns[key].flowStateCount = 0
                           /\ patterns[key].noiseSum = 0
                           /\ patterns[key].bpmSum = 0
                           /\ patterns[key].rrIntervalSum = 0
                           /\ patterns[key].probability.num = 0
                           /\ patterns[key].avgNoise.num = 0
                           /\ patterns[key].avgBPM.num = 0
                           /\ patterns[key].avgRRInterval.num = 0

\* C16 witness: one call on no record at all, returning 168 empty cells, and
\* one call on records that fill some cell.
C16_Witness ==
    /\ Len(aggregations) >= 2
    /\ aggregations[1].input = NoRecords
    /\ \A key \in DOMAIN aggregations[1].patterns :
          aggregations[1].patterns[key].totalCount = 0
    /\ \E key \in DOMAIN aggregations[2].patterns :
          aggregations[2].patterns[key].totalCount > 0

\* C17: the confidence of a pattern is 0 when its sample count is below 10,
\* and otherwise round(100 * (0.4 min(n/50, 1) + 0.3 c + 0.3 p)): the integer
\* k with k - 1/2 <= 40 min(n, 50)/50 + 30 c + 30 p < k + 1/2.  With
\* c = 1 - sqrt(rad)/cd and p = pn/pd, and V the number
\* cd (pd (8 min(n, 50) + 305 - 10 k) + 300 pn), that is
\* 300 pd sqrt(rad) <= V and 300 pd sqrt(rad) > V - 10 pd cd.
\* For n = 20, p = 0.4 and c = 0.8 the confidence is 52.
C17_ConfidenceFormula ==
    confResult # <<>> =>
        LET n == confArgs.totalCount
            pn == confArgs.probability.num
            pd == confArgs.probability.den
            rad == confArgs.consistency.rad
            cd == confArgs.consistency.den
            k == confResult[1]
            V == cd * (pd * (8 * Min(n, 50) + 305 - 10 * k) + 300 * pn)
            W == V - 10 * pd * cd
        IN  /\ n < 10 => k = 0
            /\ n >= 10 =>
                  /\ k \in 0..100
                  /\ V >= 0 /\ 90000 * pd * pd * rad <= V * V
                  /\ W < 0 \/ 90000 * pd * pd * rad > W * W
            /\ (n = 20 /\ pn = 2 /\ pd = 5 /\ rad = 1 /\ cd = 5) => k = 52

\* C17 witness: the call on 20 samples, probability 0.4 and consistency 0.8
\* has returned 52.
C17_Witness ==
    /\ confArgs = [totalCount |-> 20, probability |-> Ratio(2, 5),
                   consistency |-> OneMinusSqrt(1, 5)]
    /\ confResult = <<52>>

\* k is round(0.7 * mean(confidences) + 30 * min(dataPoints/500, 1)), or 0 for
\* no confidences: with S their sum, L their number and m = min(dataPoints,
\* 500), (2k - 1) 50 L <= 70 S + 6 m L < (2k + 1) 50 L.
IsOverallConfidence(k, confidences, dataPoints) ==
    LET L == Len(confidences)
        S == SumSeq(confidences)
        m == Min(dataPoints, 500)
    IN  /\ k \in 0..100
        /\ L = 0 => k = 0
        /\ L > 0 => /\ (2 * k - 1) * 50 * L <= 70 * S + 6 * m * L
                    /\ 70 * S + 6 * m * L < (2 * k + 1) * 50 * L

\* C18 as stated: the overall confidence of a run is computed from the mean
\* confidence of all the hours of the 24-hour scan admitted by the
\* probability >= 0.30 test, and lies in 0..100.
C18_OverallOverAdmittedHours ==
    \A r \in Returned :
        IsOverallConfidence(runs[r].overallConfidence, runs[r].candidates, runs[r].dataPoints)

\* C18 amended: the overall confidence of a run is computed from the mean
\* confidence of the predictions the run returns (the admitted hours after
\* the sort and the truncation to five), and lies in 0..100.
C18_OverallOverReturnedPredictions ==
    \A r \in Returned :
        IsOverallConfidence(runs[r].overallConfidence,
                            [i \in 1..Len(runs[r].predictions) |-> runs[r].predictions[i].confidence],
                            runs[r].dataPoints)

\* C18 witness: a run admitted seven hours, returned five, and stored an
\* overall confidence above zero.
C18_Witness ==
    \E r \in Returned :
        /\ Len(runs[r].candidates) = 7 /\ Len(runs[r].predictions) = 5
        /\ runs[r].overallConfidence > 0
        /\ predictionData.confidence = runs[r].overallConfidence

\* The heart rate of a row of the answer: field 5 when it is above 0, field 6
\* otherwise.
HeartRate(row) == IF row.bpmAvg > 0 THEN row.bpmAvg ELSE row.bpmRealtime

\* The rows of an answer whose heart rate is in [40,200].
RowsInRange(feeds) ==
    SelectSeq(Datasets[feeds], LAMBDA row : HeartRate(row) >= 40 /\ HeartRate(row) <= 200)

\* C19: of the rows a run was answered with, those with a heart rate outside
\* [40,200] are dropped: the run counts only the others toward the minimum
\* of 100, and the records it aggregates are exactly the others, each with
\* its heart rate in [40,200].
C19_OnlyValidHeartRatesAggregated ==
    \A r \in Finished :
        runs[r].feeds # NoAnswer =>
            LET kept == RowsInRange(runs[r].feeds)
                count == SumSeq([i \in 1..Len(kept) |-> kept[i].n])
                data == runs[r].aggregated
            IN  /\ runs[r].dataPoints = count
                /\ (runs[r].result = "predictions") = (count >= 100)
                /\ \A i \in 1..Len(data) : data[i].bpm >= 40 /\ data[i].bpm <= 200
                /\ runs[r].result = "predictions" =>
                      /\ Len(data) = Len(kept)
                      /\ \A i \in 1..Len(data) :
                            /\ data[i].bpm = HeartRate(kept[i])
                            /\ data[i].n = kept[i].n

\* C19 witness: a run was answered with more rows than it counted, some with
\* an averaged BPM out of range beside an instantaneous BPM in range, and the
\* rows left were just enough to aggregate.
C19_Witness ==
    \E r \in Returned :
        /\ runs[r].dataPoints = 100
        /\ \E i \in 1..Len(Datasets[runs[r].feeds]) :
              LET row == Datasets[runs[r].feeds][i]
              IN  row.bpmAvg > 0 /\ row.bpmAvg < 40 /\ row.bpmRealtime = 70
        /\ \A i \in 1..Len(runs[r].aggregated) : runs[r].aggregated[i].bpm = 95

\* The interval pushed last into the R-R interval buffer, in ms.
LatestInterval(n) == n.rrIntervals[(n.rrIndex + RR_INTERVAL_SIZE - 1) % RR_INTERVAL_SIZE]

\* C20: the value the node writes into field 3 of a request is the interval
\* it pushed last into the R-R interval buffer (field 3 is read in tenths).
C20_Field3IsLatestInterval ==
    [][\A i \in 1..Len(uploadLog') :
          (i > Len(uploadLog) /\ uploadLog'[i].sent # <<>> /\ node.hrvSampleCount > 0)
              => uploadLog'[i].sent[1].field3 = 10 * LatestInterval(node)]_vars

\* C21: an upload tick sends at most one request, and that request carries
\* the readings of its own tick, never those of a tick whose upload failed;
\* two upload ticks are at least one upload interval apart, whether or not the
\* first failed; an upload tick changes nothing of the sensing state and
\* leaves no upload due, so that the step after it is an acquisition tick.
C21_FireAndForget ==
    /\ [](\A i \in 1..Len(uploadLog) :
            /\ Len(uploadLog[i].sent) <= 1
            /\ uploadLog[i].sent # <<>> => uploadLog[i].sent[1] = uploadLog[i].readings
            /\ i > 1 => uploadLog[i].time - uploadLog[i - 1].time >= UPLOAD_INTERVAL)
    /\ [][uploadLog' # uploadLog =>
            /\ Len(uploadLog') = Len(uploadLog) + 1
            /\ SubSeq(uploadLog', 1, Len(uploadLog)) = uploadLog
            /\ node' = node /\ millis' = millis
            /\ lastUploadTime' = millis
            /\ ~(millis' - lastUploadTime' >= UPLOAD_INTERVAL)]_vars

\* A failed upload tick, then acquisition ticks, then an upload tick that
\* sends readings other than those of the failed tick.
C21_Witness ==
    /\ Len(uploadLog) >= 2
    /\ uploadLog[1].sent = <<>>
    /\ uploadLog[2].sent # <<>>
    /\ uploadLog[2].sent[1] # uploadLog[1].readings
    /\ uploadLog[2].time = uploadLog[1].time + UPLOAD_INTERVAL

\* The runs whose historical fetch failed.
FetchFailed == {r \in RunIds : runs[r].pc = "done" /\ runs[r].feeds = NoAnswer}

\* C22: the step in which the fetch of a run fails ends that run, starts no
\* run and no fetch, and leaves the four fields of predictionData as they
\* were; a run that has ended never fetches again, and a fetch begins only
\* when the module is initialized or the interval timer fires.
C22_FailedFetchLeavesSnapshot ==
    /\ [][\A r \in RunIds :
            (runs[r].pc = "fetching" /\ runs'[r].pc = "done" /\ runs'[r].feeds = NoAnswer)
            => /\ predictionData' = predictionData
               /\ pdWriter' = pdWriter
               /\ runs'[r].result = "null"
               /\ nextRun' = nextRun
               /\ \A q \in RunIds \ {r} : runs'[q] = runs[q]]_vars
    /\ [][\A r \in RunIds :
            /\ runs[r].pc = "done" => runs'[r] = runs[r]
            /\ (runs[r].pc # "fetching" /\ runs'[r].pc = "fetching")
               => /\ r = nextRun /\ nextRun' = nextRun + 1
                  /\ \/ ~initialized /\ initialized'
                     \/ timerDue /\ ~timerDue']_vars

\* An earlier run stored predictions, the fetch of a later run failed, and
\* the snapshot is still the earlier run's; a third run fetches meanwhile.
C22_Witness ==
    /\ completionOrder = <<1, 2>>
    /\ 2 \in FetchFailed
    /\ runs[1].result = "predictions"
    /\ predictionData.predictions = runs[1].predictions
    /\ predictionData.predictions # <<>>
    /\ predictionData.dataQuality # "insufficient"
    /\ runs[3].pc = "fetching"

\* A tick on which detectHeartBeat_Adaptive saw a falling edge: only the
\* falling edge clears inPulse.
FallingEdgeStep == node.inPulse /\ ~node'.inPulse

\* C23: on a falling edge with lastBeat set, the instantaneous BPM becomes
\* 60000 / delta when 400 <= delta <= 3000, both bounds included, and is
\* left unchanged for any other delta.
C23_BPMFromIntervalInclusive ==
    [][(FallingEdgeStep /\ node.lastBeat > 0)
        => LET delta == node'.lastBeat - node.lastBeat
           IN  IF delta >= MIN_BEAT_DELTA /\ delta <= MAX_BEAT_DELTA
               THEN node'.beatsPerMinute = MS_PER_MINUTE \div delta
               ELSE node'.beatsPerMinute = node.beatsPerMinute]_vars

\* The threshold with round(amplitude * 0.3), from the window: the mean and
\* the half are those of the integer arithmetic of the node.
WindowBaseline(n) == SumTo(n.irWindow, IR_WINDOW_SIZE) \div IR_WINDOW_SIZE
WindowAmplitude(n) ==
    (MaxTo(n.irWindow, IR_WINDOW_SIZE) - MinTo(n.irWindow, IR_WINDOW_SIZE)) \div 2
RoundedThreshold(n) == WindowBaseline(n) + (3 * WindowAmplitude(n) + 5) \div 10
TruncatedThreshold(n) == WindowBaseline(n) + (3 * WindowAmplitude(n)) \div 10

\* A tick on which detectHeartBeat_Adaptive saw a rising edge.
RisingEdgeStep == ~node.inPulse /\ node'.pulseStartTime # node.pulseStartTime

\* Edge detection against threshold t: a rising edge has the sample above t
\* and the sample before it not above t, a falling edge has the sample below
\* t; and with the amplitude at 30 or more, a sample above t after one not
\* above t is a rising edge when no pulse is open, a sample below t closes an
\* open pulse.
EdgesAgainst(t) ==
    /\ RisingEdgeStep => (node'.irValue > t /\ node.lastValue <= t)
    /\ FallingEdgeStep => node'.irValue < t
    /\ (node'.irWindowFull /\ WindowAmplitude(node') >= MIN_AC)
        => /\ (~node.inPulse /\ node'.irValue > t /\ node.lastValue <= t) => RisingEdgeStep
           /\ (node.inPulse /\ node'.irValue < t) => FallingEdgeStep

\* C24: on every tick with the window full and the amplitude at 30 or more,
\* the threshold of the edge detection is baseline + round(amplitude * 0.3).
C24_ThresholdRoundsAmplitude ==
    [][ticks' = ticks + 1 => EdgesAgainst(RoundedThreshold(node'))]_vars

\* C24, amended: the threshold is baseline + (amplitude * 3) / 10 with the
\* fraction dropped.
C24_ThresholdTruncatesAmplitude ==
    /\ []((node.irWindowFull /\ node.fingerDetected)
            => /\ node.irBaseline = WindowBaseline(node)
               /\ node.irAC = WindowAmplitude(node)
               /\ Threshold(node) = TruncatedThreshold(node))
    /\ [][ticks' = ticks + 1 => EdgesAgainst(TruncatedThreshold(node'))]_vars

\* The amplitude is 32 (30% of it is 9.6), and the sample of the tick is at
\* baseline + 10, a sample before it at or below baseline + 9: a rising edge
\* against the truncated threshold, none against the rounded one.
C24_Witness ==
    /\ node.irWindowFull /\ node.irAC = 32
    /\ node.irValue = node.irBaseline + 10
    /\ node.inPulse /\ node.pulseStartTime = millis + SOUND_WINDOW

DetectionStep ==
    \/ RisingEdgeStep \/ FallingEdgeStep
    \/ node'.rates # node.rates \/ node'.rateSpot # node.rateSpot
    \/ node'.rrIntervals # node.rrIntervals \/ node'.rrIndex # node.rrIndex

\* A change of the instantaneous BPM or of the beat count.
RateStep ==
    node'.beatsPerMinute # node.beatsPerMinute \/ node'.beatCount # node.beatCount

\* C26: an edge, or a change of the instantaneous BPM, the beat count, the
\* rate buffer or the interval buffer, happens on an acquisition tick only
\* when the sample of that tick and of each of the 29 ticks before it was
\* above IR_THRESHOLD.
C26_ChangesOnlyWithFullWindow ==
    [][(ticks' = ticks + 1 /\ (DetectionStep \/ RateStep))
        => fingerRun' = IR_WINDOW_SIZE]_vars

\* C26, amended: a tick without the finger puts the instantaneous BPM and
\* the beat count to 0 and does nothing else of these; every other change
\* needs 30 samples in a row above IR_THRESHOLD, and so does a full window.
C26_DetectionOnlyWithFullWindow ==
    /\ [][(ticks' = ticks + 1 /\ (DetectionStep \/ RateStep))
            => \/ fingerRun' = IR_WINDOW_SIZE
               \/ /\ fingerRun' = 0 /\ ~DetectionStep
                  /\ node'.beatsPerMinute = 0 /\ node'.beatCount = 0]_vars
    /\ [](node.irWindowFull => fingerRun = IR_WINDOW_SIZE)
    /\ []((node.max30102OK /\ fingerRun = IR_WINDOW_SIZE) => node.irWindowFull)

\* The finger left for one tick after beats had been counted, the window has
\* been refilled by 30 samples, and a beat has been counted again.
C26_Witness ==
    /\ noFingerTicks = 1 /\ fingerRun = IR_WINDOW_SIZE
    /\ node.irWindowFull /\ node.beatCount >= 1 /\ node.beatsPerMinute > 0
    /\ node.hrvSampleCount > node.beatCount

\* A tick that stores a value in the rate buffer, in the R-R interval buffer.
RatePush == node'.rateSpot # node.rateSpot \/ node'.rates # node.rates
IntervalPush == node'.rrIndex # node.rrIndex \/ node'.rrIntervals # node.rrIntervals

\* C27: a tick stores an interval in the R-R interval buffer exactly when it
\* stores the BPM computed from that interval in the rate buffer, one value
\* each, and then the BPM is in [45,150]; a tick that counts a beat with a
\* BPM outside [45,150] changes neither buffer.
C27_IntervalPushedWithRate ==
    [][ticks' = ticks + 1 =>
        /\ RatePush <=> IntervalPush
        /\ RatePush =>
            /\ node'.beatsPerMinute \in MIN_BPM..MAX_BPM
            /\ node'.rateSpot = (node.rateSpot + 1) % RATE_SIZE
            /\ node'.rrIndex = (node.rrIndex + 1) % RR_INTERVAL_SIZE
            /\ node'.rates = [node.rates EXCEPT ![node.rateSpot] = node'.beatsPerMinute]
            /\ \E delta \in (MIN_BEAT_DELTA + 1)..(MAX_BEAT_DELTA - 1) :
                  /\ node'.rrIntervals = [node.rrIntervals EXCEPT ![node.rrIndex] = delta]
                  /\ node'.beatsPerMinute = MS_PER_MINUTE \div delta
        /\ (node'.beatCount = node.beatCount + 1
            /\ node'.beatsPerMinute \notin MIN_BPM..MAX_BPM)
            => (~RatePush /\ ~IntervalPush)]_vars

\* One beat was admitted, its interval and its BPM stored; the beat counted
\* last has a BPM below 45 and left both buffers alone.
C27_Witness ==
    /\ node.beatsPerMinute > 0 /\ node.beatsPerMinute < MIN_BPM
    /\ node.rateSpot = 1 /\ node.rrIndex = 1 /\ node.hrvSampleCount = 1
    /\ node.rrIntervals[0] > MIN_BEAT_DELTA
    /\ node.rates[0] = MS_PER_MINUTE \div node.rrIntervals[0]
    /\ node.rates[1] = 0 /\ node.rrIntervals[1] = 0

\* C28: every falling edge sets lastBeat to the time of the tick, whatever
\* the interval since the edge before and whether or not a beat is counted
\* or admitted; lastBeat changes on no other tick; and a falling edge with
\* lastBeat not yet set leaves the heart rates, the beat count and both
\* buffers as they were.
C28_FallingEdgeSetsLastBeat ==
    [][ticks' = ticks + 1 =>
        /\ FallingEdgeStep => node'.lastBeat = millis' + SOUND_WINDOW
        /\ ~FallingEdgeStep => node'.lastBeat = node.lastBeat
        /\ (FallingEdgeStep /\ node.lastBeat = 0)
            => /\ node'.beatsPerMinute = node.beatsPerMinute
               /\ node'.beatAvg = node.beatAvg
               /\ node'.beatCount = node.beatCount
               /\ ~RatePush /\ ~IntervalPush]_vars

\* A pulse every 400 ms: the third falling edge or a later one has just
\* moved lastBeat to the time of the tick, and no beat was ever counted.
C28_Witness ==
    /\ WavePeriod(signal.wave) = MIN_BEAT_DELTA /\ noFingerTicks = 0
    /\ node.stableReadings >= 3 /\ ~node.inPulse
    /\ node.lastBeat = millis + SOUND_WINDOW
    /\ node.beatCount = 0 /\ node.beatsPerMinute = 0

\* score(a) >= score(b) and score(a) = score(b), for
\* score = probability * (confidence / 100).
ScoreAtLeast(a, b) ==
    a.probability.num * a.confidence * b.probability.den
        >= b.probability.num * b.confidence * a.probability.den
ScoreEqual(a, b) == ScoreAtLeast(a, b) /\ ScoreAtLeast(b, a)

\* C29: the predictions a run returns are admitted candidates, in the order
\* of non-increasing score, those of equal score by ascending hoursFromNow;
\* and no admitted candidate left out has a score above that of a returned
\* prediction.
C29_SortedByScoreStable ==
    \A r \in Returned :
        LET P == runs[r].predictions
            A == runs[r].admitted
            returnedHours == {P[i].hoursFromNow : i \in 1..Len(P)}
        IN  /\ \A i \in 1..Len(P) : \E k \in 1..Len(A) :
                  /\ A[k].hoursFromNow = P[i].hoursFromNow
                  /\ A[k].probability = P[i].probability
                  /\ A[k].confidence = P[i].confidence
            /\ \A k, l \in 1..Len(A) : k < l => A[k].hoursFromNow < A[l].hoursFromNow
            /\ \A i, j \in 1..Len(P) :
                  i < j => /\ ScoreAtLeast(P[i], P[j])
                           /\ ScoreEqual(P[i], P[j]) => P[i].hoursFromNow < P[j].hoursFromNow
            /\ \A k \in 1..Len(A) :
                  A[k].hoursFromNow \notin returnedHours
                  => \A i \in 1..Len(P) : ScoreAtLeast(P[i], A[k])

\* A run returned two predictions of equal score with a prediction of
\* another score, and a run returned five of seven admitted candidates, the
\* first of them encountered after one that was left out.
C29_Witness ==
    /\ \E r \in Returned : \E i \in 1..(Len(runs[r].predictions) - 1) :
          /\ ScoreEqual(runs[r].predictions[i], runs[r].predictions[i + 1])
          /\ \E j \in 1..Len(runs[r].predictions) :
                ~ScoreEqual(runs[r].predictions[i], runs[r].predictions[j])
    /\ \E r \in Returned :
          /\ Len(runs[r].admitted) = 7 /\ Len(runs[r].predictions) = TOP_PREDICTIONS
          /\ runs[r].predictions[1].hoursFromNow > runs[r].admitted[1].hoursFromNow

\* The number of records of data with the given day and hour; with flowOnly,
\* of those whose state is Flow State.
RECURSIVE RecordsOf(_, _, _, _)
RecordsOf(data, day, hour, flowOnly) ==
    IF data = <<>> THEN 0
    ELSE LET entry == Head(data)
             counts == /\ entry.dayOfWeek = day /\ entry.hour = hour
                       /\ flowOnly => entry.state = "Flow State"
         IN  (IF counts THEN entry.n ELSE 0) + RecordsOf(Tail(data), day, hour, flowOnly)

\* The sum of totalCount over the 168 cells.
TotalOverCells(patterns) ==
    SumSeq([d \in 1..7 |-> SumSeq([h \in 1..24 |-> patterns[<<d - 1, h - 1>>].totalCount])])

\* C30: after every aggregation, in every cell, totalCount is the number of
\* input records of that day and hour, flowStateCount the number of those in
\* Flow State, flowStateCount <= totalCount, and in a cell that is not empty
\* probability = flowStateCount / totalCount; and the totalCount of all cells
\* add up to the number of input records.
C30_CellCounts ==
    \A k \in 1..Len(aggregations) :
        LET patterns == aggregations[k].patterns
            data == InputData(aggregations[k].input)
        IN  /\ \A key \in (0..6) \X (0..23) :
                  LET cell == patterns[key]
                  IN  /\ cell.totalCount = RecordsOf(data, key[1], key[2], FALSE)
                      /\ cell.flowStateCount = RecordsOf(data, key[1], key[2], TRUE)
                      /\ cell.flowStateCount <= cell.totalCount
                      /\ cell.totalCount > 0
                          => /\ cell.probability.den > 0
                             /\ cell.probability.num * cell.totalCount
                                   = cell.flowStateCount * cell.probability.den
            /\ TotalOverCells(patterns) = DataLength(data)

\* An aggregation of 140 records into seven cells, one of them with 6 of its
\* 20 records in Flow State and one with all of its 20.
C30_Witness ==
    \E k \in 1..Len(aggregations) :
        LET patterns == aggregations[k].patterns
        IN  /\ TotalOverCells(patterns) = 140
            /\ Cardinality({key \in DOMAIN patterns : patterns[key].totalCount > 0}) = 7
            /\ \E key \in DOMAIN patterns :
                  patterns[key].totalCount = 20 /\ patterns[key].flowStateCount = 6
            /\ \E key \in DOMAIN patterns :
                  patterns[key].totalCount = 20 /\ patterns[key].flowStateCount = 20

\* The sum, over the records of data with the given day and hour, of
\* (isFlow - pn/pd)^2 times pd^2, isFlow being 1 for a record whose state is
\* Flow State and 0 for any other.
RECURSIVE SquaredDeviations(_, _, _, _, _)
SquaredDeviations(data, day, hour, pn, pd) ==
    IF data = <<>> THEN 0
    ELSE LET entry == Head(data)
             isFlow == IF entry.state = "Flow State" THEN 1 ELSE 0
             dev == isFlow * pd - pn
             here == entry.dayOfWeek = day /\ entry.hour = hour
         IN  (IF here THEN entry.n * dev * dev ELSE 0)
                 + SquaredDeviations(Tail(data), day, hour, pn, pd)

\* cell.consistency, kept as 1 - sqrt(rad)/den, is 1 - sqrt(variance) for the
\* population variance of the indicator of the cell's records around the
\* cell's probability pn/pd (in lowest terms, to keep the products small):
\* rad/den^2 = SquaredDeviations/(pd^2 totalCount).
ConsistencyFromSamples(cell, data) ==
    LET c == cell.consistency
        g == GCD(cell.probability.num, cell.probability.den)
        pn == cell.probability.num \div g
        pd == cell.probability.den \div g
    IN  c.rad * pd * pd * cell.totalCount
            = SquaredDeviations(data, cell.day, cell.hour, pn, pd) * c.den * c.den

\* cell.consistency is 1 - sqrt(p (1 - p)) for p the cell's probability.
ConsistencyFromProbability(cell) ==
    LET c == cell.consistency
        p == cell.probability
    IN  c.rad * p.den * p.den = p.num * (p.den - p.num) * c.den * c.den

\* 0.5 <= cell.consistency <= 1, and the same bound on the counts.
ConsistencyInRange(cell) ==
    /\ cell.consistency.den > 0
    /\ cell.consistency.rad >= 0
    /\ 4 * cell.consistency.rad <= cell.consistency.den * cell.consistency.den
    /\ 4 * cell.flowStateCount * (cell.totalCount - cell.flowStateCount)
           <= cell.totalCount * cell.totalCount

\* C31 as stated: in every cell of every aggregation, consistency is
\* 1 - sqrt(p (1 - p)) for the cell's probability p and lies within [0.5, 1].
C31_ConsistencyOfEveryCell ==
    \A k \in 1..Len(aggregations) :
        \A key \in (0..6) \X (0..23) :
            LET cell == aggregations[k].patterns[key]
            IN  ConsistencyFromProbability(cell) /\ ConsistencyInRange(cell)

\* C31: in every cell of every aggregation that holds at least one record,
\* consistency is 1 - sqrt(variance) of the indicator of its records, which is
\* 1 - sqrt(p (1 - p)) for the cell's probability p, and lies within
\* [0.5, 1] (4 flowStateCount (totalCount - flowStateCount) <= totalCount^2);
\* in a cell without records consistency is 0.
C31_ConsistencyOfNonEmptyCells ==
    \A k \in 1..Len(aggregations) :
        \A key \in (0..6) \X (0..23) :
            LET cell == aggregations[k].patterns[key]
                data == InputData(aggregations[k].input)
            IN  IF cell.totalCount > 0
                THEN /\ ConsistencyFromSamples(cell, data)
                     /\ ConsistencyFromProbability(cell)
                     /\ ConsistencyInRange(cell)
                ELSE cell.consistency = ZeroConsistency

\* Aggregations with a cell of consistency 1 (all of its records in Flow
\* State), a cell of consistency 0.5 (half of them), a cell strictly between
\* the two (6 of 20) and a cell without records.
C31_Witness ==
    /\ \E k \in 1..Len(aggregations) : \E key \in (0..6) \X (0..23) :
          LET cell == aggregations[k].patterns[key]
          IN  cell.totalCount > 0 /\ cell.flowStateCount = cell.totalCount
              /\ cell.consistency.rad = 0
    /\ \E k \in 1..Len(aggregations) : \E key \in (0..6) \X (0..23) :
          LET cell == aggregations[k].patterns[key]
          IN  cell.totalCount > 0 /\ 2 * cell.flowStateCount = cell.totalCount
              /\ 4 * cell.consistency.rad = cell.consistency.den * cell.consistency.den
    /\ \E k \in 1..Len(aggregations) : \E key \in (0..6) \X (0..23) :
          LET cell == aggregations[k].patterns[key]
          IN  cell.totalCount = 20 /\ cell.flowStateCount = 6
              /\ 4 * cell.consistency.rad < cell.consistency.den * cell.consistency.den
    /\ \E k \in 1..Len(aggregations) : \E key \in (0..6) \X (0..23) :
          aggregations[k].patterns[key].totalCount = 0

\* The row of the channel feed that an uploaded request becomes: fields 3, 5
\* and 6 as sent, the noise of field 2 and the time of the row drawn.
FeedOfUpload(readings, day, hour, noise) ==
    Feed(day, hour, noise, readings.field3, readings.field5, readings.field6, 1)

UploadNoises == {400, 620}

\* The filter of fetchPredictionHistoricalData keeps no record of the row.
DroppedByFilter(readings) ==
    \A noise \in UploadNoises :
        CleanData(<<FeedOfUpload(readings, 0, 0, noise)>>) = <<>>

\* C32: between any two steps of the loop, if no finger is detected or the
\* optical sensor is absent, the instantaneous and the averaged heart rate
\* are both 0; and every request built with field 7 = 0 carries 0 in fields 5
\* and 6 and is dropped by the heart-rate filter of the forecast.
C32_NoFingerZeroRates ==
    /\ (~node.fingerDetected \/ ~node.max30102OK)
           => node.beatsPerMinute = 0 /\ node.beatAvg = 0
    /\ \A i \in 1..Len(uploadLog) :
           LET readings == uploadLog[i].readings
           IN  readings.field7 = 0
                   => /\ readings.field5 = 0
                      /\ readings.field6 = 0
                      /\ DroppedByFilter(readings)

\* A request sent with field 7 = 0 by a node that had admitted a beat before
\* the finger left the sensor.
C32_Witness ==
    /\ node.max30102OK
    /\ \E s \in 0..(RATE_SIZE - 1) : node.rates[s] > 0
    /\ \E i \in 1..Len(uploadLog) :
           /\ uploadLog[i].readings.field7 = 0
           /\ uploadLog[i].sent # <<>>

\* A tick on which an instantaneous BPM is computed: only then is the beat
\* count incremented (lines 436-437).
BPMComputed == node'.beatCount = node.beatCount + 1

\* C33: once a sample has been read without the finger, a tick computes an
\* instantaneous BPM only on a falling edge whose reference time lastBeat was
\* set after that sample, from the interval between the two; and a falling
\* edge whose reference time is not later than that sample is more than
\* 3000 ms after it and computes no BPM, counts no beat and stores nothing.
C33_NoRateAcrossFingerLoss ==
    [][(ticks' = ticks + 1 /\ lossTime' > 0) =>
        /\ BPMComputed
             => /\ FallingEdgeStep
                /\ node.lastBeat > lossTime
                /\ node'.lastBeat > node.lastBeat
                /\ node'.beatsPerMinute = MS_PER_MINUTE \div (node'.lastBeat - node.lastBeat)
        /\ (FallingEdgeStep /\ node.lastBeat <= lossTime)
             => /\ node'.lastBeat - node.lastBeat > MAX_BEAT_DELTA
                /\ ~BPMComputed
                /\ node'.beatsPerMinute = node.beatsPerMinute
                /\ node'.beatAvg = node.beatAvg
                /\ ~RatePush /\ ~IntervalPush]_vars

\* Beats were admitted, the finger left, and after its return a falling edge
\* later than the loss has been followed by a computed BPM.
C33_Witness ==
    /\ lossTime > 0 /\ fingerRun = IR_WINDOW_SIZE
    /\ node.hrvSampleCount > node.beatCount
    /\ node.beatCount >= 1 /\ node.beatsPerMinute > 0
    /\ node.lastBeat > lossTime + MAX_BEAT_DELTA

\* The slots of the rate buffer that are not zero.
NonZeroSlots(n) == {x \in 0..(RATE_SIZE - 1) : n.rates[x] > 0}

\* The integer mean of the non-zero slots of the rate buffer (0 without one).
MeanOfNonZeroSlots(n) ==
    IF NonZeroSlots(n) = {} THEN 0
    ELSE SumTo(n.rates, RATE_SIZE) \div Cardinality(NonZeroSlots(n))

\* The rate buffer holds the BPMs of seq, the latest in the slot before
\* rateSpot, and 0 in every other slot.
RingHolds(n, seq) ==
    /\ Cardinality(NonZeroSlots(n)) = Len(seq)
    /\ \A i \in 1..Len(seq) :
           n.rates[(n.rateSpot + RATE_SIZE - Len(seq) + i - 1) % RATE_SIZE] = seq[i]

\* C34: the rate buffer always holds the up to 4 most recently admitted
\* instantaneous BPMs, whether admitted before or after a finger loss; a tick
\* without the finger leaves the buffer and its index as they were; and a
\* tick that admits a beat makes the averaged heart rate the integer mean of
\* the non-zero slots, which is the integer mean of those BPMs.
C34_AverageOfLatestAdmitted ==
    /\ [](RingHolds(node, admittedRates))
    /\ [][ticks' = ticks + 1 =>
            /\ ~node'.fingerDetected
                 => node'.rates = node.rates /\ node'.rateSpot = node.rateSpot
            /\ BeatAdmitted(node, node')
                 => /\ admittedRates'[Len(admittedRates')] = node'.beatsPerMinute
                    /\ node'.beatAvg = MeanOfNonZeroSlots(node')
                    /\ node'.beatAvg = SumSeq(admittedRates') \div Len(admittedRates')]_vars

\* The first beat admitted after the finger returned: the averaged heart rate
\* is the mean of its BPM and of BPMs admitted before the loss, and differs
\* from the BPM just admitted.
C34_Witness ==
    /\ lossTime > 0 /\ node.lastBeat > lossTime
    /\ node.beatCount = 1 /\ node.beatAvg > 0
    /\ Len(admittedRates) >= 2
    /\ admittedRates[Len(admittedRates)] = node.beatsPerMinute
    /\ node.beatAvg = SumSeq(admittedRates) \div Len(admittedRates)
    /\ node.beatAvg # node.beatsPerMinute

\* The time from the falling edge recorded in lastBeat to the falling edge of
\* this tick, in unsigned long.
Spacing == Sub32(node'.lastBeat, node.lastBeat)

\* C35: on every falling edge that comes strictly between 400 and 3000 ms
\* after the falling edge before it, an instantaneous BPM of 60000 / spacing
\* is computed, wherever the 32-bit millisecond clock stands.
C35_RateAtAnyClock ==
    [][(FallingEdgeStep /\ node.lastBeat # 0
            /\ UGt(Spacing, MIN_BEAT_DELTA) /\ ULt(Spacing, MAX_BEAT_DELTA))
        => /\ BPMComputed
           /\ node'.beatsPerMinute = MS_PER_MINUTE \div Spacing]_vars

====
